---- MODULE Spec2Model ----
(***************************************************************************)
(* A model of the snow-portal backend-for-frontend proxy                   *)
(* (src/backend/server.js) and of its browser-side caller                  *)
(* (src/frontend/src/api.js).                                              *)
(*                                                                         *)
(* Part I   the Upstream Client sn(...): one HTTP attempt per step, with   *)
(*          its timeout and retry loop (specification SpecSn).             *)
(* Part II  the Session Store, requireAuth and the route handlers, one     *)
(*          request per step (specification Spec).                         *)
(*                                                                         *)
(* SpecClient  the page of src/frontend/src/App.jsx logging in and out     *)
(*             while requests with issued tokens arrive.                   *)
(* SpecRef     resolveRef applied to one input after another.              *)
(* SpecCache   _resolveDisplayName applied while the clock runs.           *)
(* SpecApi     api of src/frontend/src/api.js given one response.          *)
(* SpecUnwrap  unwrapAuditVal applied to audit values.                     *)
(* SpecConc    _resolveDisplayName calls that overlap at their await.      *)
(***************************************************************************)
EXTENDS Integers, Sequences, FiniteSets, Bags, TLC

VARIABLES
    \* ---- Part I: one sn(...) call in progress ----
    retries,      \* opts.retries of the call
    returnRaw,    \* opts.returnRaw of the call
    attempt,      \* the local `attempt`
    lastErr,      \* the local `lastErr`
    snPc,         \* "idle" | "loop" | "returned" | "raised"
    snHist,       \* the outcome of every fetch the call has issued, in order
    snDelays,     \* the backoff delay slept after each retried attempt (ms)
    snOut,        \* what the call returned or threw
    snWrites,     \* how many of the call's fetches the upstream has carried out
    \* ---- Part II: the process and the request it handled last ----
    USE_ADMIN_FOR_ALL,  \* the environment setting read on line 21
    sessions,     \* the Map of line 65: token -> session
    nameCache,    \* the Map _nameCache of line 248: <<table, sys_id>> -> entry
    now,          \* Date.now()
    req,          \* the request handled last
    calls,        \* the sn(...) calls that request made, in order
    callOk,       \* for each of those calls: it returned (TRUE) or threw (FALSE)
    res,          \* the response it was given
    \* ---- the browser of src/frontend/src/App.jsx ----
    localStorage, \* window.localStorage: key -> stored value
    \* ---- one helper applied on its own ----
    applied,      \* the helper applied last and its arguments
    returned,     \* what it returned
    \* ---- _resolveDisplayName calls that overlap ----
    inFlight      \* the bag of calls awaiting their fetch (line 260)

snVars == <<retries, returnRaw, attempt, lastErr, snPc, snHist, snDelays, snOut,
           snWrites>>

appVars == <<USE_ADMIN_FOR_ALL, sessions, nameCache, now, req, calls, callOk, res,
            localStorage, applied, returned, inFlight>>

fnVars == <<applied, returned, inFlight>>

vars == <<retries, returnRaw, attempt, lastErr, snPc, snHist, snDelays, snOut, snWrites,
          USE_ADMIN_FOR_ALL, sessions, nameCache, now, req, calls, callOk, res,
          localStorage, applied, returned, inFlight>>

(***************************************************************************)
(* Bounds of the model                                                     *)
(***************************************************************************)
\* the largest opts.retries a call is made with (the default is 1)
MaxRetries == 2

\* a call is cut off after this many fetches; the code reaches at most
\* retries + 1, so the cut is never felt unless the retry loop is broken
MaxFetches == MaxRetries + 3

(***************************************************************************)
(* Part I.  sn(using, method, pathWithQuery, body, opts)                   *)
(***************************************************************************)

\* opts.retries when the caller passes none
DefaultRetries == 1

\* HTTP statuses the upstream answers with
Statuses == {200, 401, 500, 503}

\* What reading the body gave (res.text(), then JSON.parse):
\*   "abort"    res.text() rejected: the abort timer of the attempt fired, or
\*              the connection dropped, while the body was being read; the
\*              .catch turns it into the text ''
\*   "empty"    the text ''
\*   "nonjson"  a text JSON.parse rejects
\*   "json"     a JSON object with neither status 'failure' nor an error
\*   "failure"  a JSON object with status 'failure' and no error
\*   "error"    a JSON object with a truthy error field
BodyKinds == {"abort", "empty", "nonjson", "json", "failure", "error"}

\* The outcomes of one fetch: it rejects (a network-level failure, or the
\* abort timer firing before the response headers), or it resolves with a
\* status and a body.
FetchOutcomes ==
    {[fetch |-> f, status |-> 0, body |-> "none"] : f \in {"network", "timeout"}}
    \cup {[fetch |-> "ok", status |-> s, body |-> b] : s \in Statuses, b \in BodyKinds}

NoErr == [at |-> 0, httpStatus |-> 0, detail |-> "none"]

\* res.ok
ResOk(o) == o.status >= 200 /\ o.status <= 299

\* `text` of line 120: '' when the read failed or the body is empty
TextOf(o) == IF o.body \in {"abort", "empty"} THEN "" ELSE o.body

\* `data` of lines 121-122: {} when there is no text or it does not parse
DataOf(o) == IF o.body \in {"json", "failure", "error"} THEN o.body ELSE "{}"

\* data?.status === 'failure' || data?.error
HasFailureMarker(o) == DataOf(o) \in {"failure", "error"}

\* `detail` of lines 129-134
DetailOf(o) ==
    IF DataOf(o) = "error" THEN "data.error"
    ELSE IF TextOf(o) # "" THEN "text"
    ELSE "HTTP status line"

\* the Error built on lines 145-147, thrown by the attempt numbered `at`
HttpErr(o, at) == [at |-> at, httpStatus |-> o.status, detail |-> DetailOf(o)]

\* the rejection of fetch itself, caught on line 149
FetchErr(o, at) == [at |-> at, httpStatus |-> 0, detail |-> o.fetch]

RECURSIVE Pow2(_)
Pow2(n) == IF n <= 0 THEN 1 ELSE 2 * Pow2(n - 1)

\* the sleep of lines 140 and 154, computed after attempt++
BackoffMs(att) == 100 * Pow2(att)

\* line 137: a 5xx response is retried while budget remains
RetryOn5xx(o, att, r) == o.status >= 500 /\ att < r

\* line 152: whatever the try block threw is retried while budget remains
RetryOnCatch(att, r) == att < r

\* (variant) the 5xx branch retries without counting the retry
AttemptAfter5xx_uncounted(att) == att

\* the attempt counter after a retry from the 5xx branch (line 138)
AttemptAfter5xx(att) == att + 1

\* How many of the call's fetches the upstream has carried out, after one
\* more with outcome o: a response that reports success was carried out, one
\* that reports a failure was not, and a fetch that rejected (the connection
\* dropped, or the abort timer of line 108 fired) may have been carried out
\* before the answer was lost
WritesAfter(o, n) ==
    IF o.fetch # "ok" THEN {n, n + 1}
    ELSE IF ResOk(o) /\ ~HasFailureMarker(o) THEN {n + 1}
    ELSE {n}

\* The call begins: lines 96-104, and the loop test of line 106.
SnCall(r, raw) ==
    /\ snPc \in {"idle", "returned", "raised"}
    /\ retries' = r
    /\ returnRaw' = raw
    /\ attempt' = 0
    /\ lastErr' = NoErr
    /\ snHist' = << >>
    /\ snDelays' = << >>
    /\ snOut' = [kind |-> "none", err |-> NoErr]
    /\ snWrites' = 0
    /\ snPc' = "loop"
    /\ UNCHANGED appVars

\* One iteration of the while loop of lines 106-159: one fetch with outcome o.
SnAttempt(o) ==
    /\ snPc = "loop"
    /\ Len(snHist) < MaxFetches
    /\ LET at == Len(snHist) + 1 IN
       /\ snHist' = Append(snHist, o)
       /\ snWrites' \in WritesAfter(o, snWrites)
       /\ UNCHANGED <<retries, returnRaw>>
       /\ UNCHANGED appVars
       /\ IF o.fetch # "ok"
          THEN \* fetch rejected: the catch block, lines 149-158
               /\ lastErr' = FetchErr(o, at)
               /\ IF RetryOnCatch(attempt, retries)
                  THEN /\ attempt' = attempt + 1
                       /\ snDelays' = Append(snDelays, BackoffMs(attempt + 1))
                       /\ snPc' = IF attempt + 1 <= retries THEN "loop" ELSE "raised"
                       /\ snOut' = IF attempt + 1 <= retries THEN snOut
                                   ELSE [kind |-> "raised", err |-> FetchErr(o, at)]
                  ELSE /\ snPc' = "raised"
                       /\ snOut' = [kind |-> "raised", err |-> FetchErr(o, at)]
                       /\ UNCHANGED <<attempt, snDelays>>
          ELSE IF returnRaw
          THEN \* line 118
               /\ snPc' = "returned"
               /\ snOut' = [kind |-> "raw", err |-> NoErr]
               /\ UNCHANGED <<attempt, lastErr, snDelays>>
          ELSE IF ResOk(o) /\ ~HasFailureMarker(o)
          THEN \* lines 124-127
               /\ snPc' = "returned"
               /\ snOut' = [kind |-> DataOf(o), err |-> NoErr]
               /\ UNCHANGED <<attempt, lastErr, snDelays>>
          ELSE IF RetryOn5xx(o, attempt, retries)
          THEN \* lines 137-142
               /\ attempt' = AttemptAfter5xx(attempt)
               /\ snDelays' = Append(snDelays, BackoffMs(attempt + 1))
               /\ snPc' = IF AttemptAfter5xx(attempt) <= retries THEN "loop" ELSE "raised"
               /\ snOut' = IF AttemptAfter5xx(attempt) <= retries THEN snOut
                           ELSE [kind |-> "raised", err |-> lastErr]
               /\ UNCHANGED lastErr
          ELSE \* lines 144-148 throw inside the try block, so the catch
               \* block of lines 149-158 receives the error
               /\ lastErr' = HttpErr(o, at)
               /\ IF RetryOnCatch(attempt, retries)
                  THEN /\ attempt' = attempt + 1
                       /\ snDelays' = Append(snDelays, BackoffMs(attempt + 1))
                       /\ snPc' = IF attempt + 1 <= retries THEN "loop" ELSE "raised"
                       /\ snOut' = IF attempt + 1 <= retries THEN snOut
                                   ELSE [kind |-> "raised", err |-> HttpErr(o, at)]
                  ELSE /\ snPc' = "raised"
                       /\ snOut' = [kind |-> "raised", err |-> HttpErr(o, at)]
                       /\ UNCHANGED <<attempt, snDelays>>

(***************************************************************************)
(* JavaScript values whose shape the code inspects at run time             *)
(***************************************************************************)
\* A value is tagged with its typeof; an object carries its own properties
\* as a function from key to value, and `keys` lists them in insertion order.
JsStr(str) == [t |-> "string", v |-> str]
JsNull == [t |-> "null", v |-> "null"]
JsUndefined == [t |-> "undefined", v |-> "undefined"]
JsObj(keys, props) == [t |-> "object", v |-> props, keys |-> keys]

\* {display_value, value}: a field as sysparm_display_value=all returns it
Displayed(dv, raw) ==
    JsObj(<<"display_value", "value">>, [display_value |-> JsStr(dv), value |-> JsStr(raw)])

\* {link, value}: a reference field as the Table API returns it by default
Reference(raw) ==
    JsObj(<<"link", "value">>, [link |-> JsStr("https://sn/" \o raw), value |-> JsStr(raw)])

IsObject(x) == x.t = "object"

\* Object.prototype.hasOwnProperty.call(x, key), and `key in x` for the
\* plain objects JSON.parse builds
HasOwn(x, key) == IsObject(x) /\ key \in DOMAIN x.v

\* a value is falsy: '', 0, false, null, undefined
Falsy(x) ==
    \/ x.t \in {"null", "undefined"}
    \/ x.t = "string" /\ x.v = ""
    \/ x.t = "number" /\ x.v = 0
    \/ x.t = "boolean" /\ x.v = FALSE

\* x?.key
Get(x, key) == IF HasOwn(x, key) THEN x.v[key] ELSE JsUndefined

\* String.prototype.trim on the strings of the model
Trim(str) ==
    CASE str \in {"", " "} -> ""
      [] str = " checking now " -> "checking now"
      [] str = " ua " -> "ua"
      [] OTHER -> str

\* String(x) for a primitive
PrimToString(x) ==
    CASE x.t = "string" -> x.v
      [] x.t = "number" -> ToString(x.v)
      [] x.t = "boolean" -> IF x.v THEN "true" ELSE "false"
      [] x.t = "null" -> "null"
      [] OTHER -> "undefined"

\* line 69: v && typeof v === 'object' && 'value' in v ? v.value : v
pickId(v) == IF HasOwn(v, "value") THEN v.v["value"] ELSE v

\* (variant) the inner value is looked at before the label
RECURSIVE deep_valueFirst(_)
deep_valueFirst(x) ==
    IF x.t \in {"null", "undefined"} THEN ""
    ELSE IF x.t \in {"string", "number", "boolean"} THEN PrimToString(x)
    ELSE IF HasOwn(x, "value") THEN deep_valueFirst(x.v["value"])
    ELSE IF HasOwn(x, "display_value") THEN deep_valueFirst(x.v["display_value"])
    ELSE IF HasOwn(x, "name") THEN deep_valueFirst(x.v["name"])
    ELSE IF HasOwn(x, "user_name") THEN deep_valueFirst(x.v["user_name"])
    ELSE IF Len(x.keys) = 1 THEN deep_valueFirst(x.v[x.keys[1]])
    ELSE ""

\* lines 73-90, the inner function deep(x)
RECURSIVE deep(_)
deep(x) ==
    IF x.t \in {"null", "undefined"} THEN ""
    ELSE IF x.t \in {"string", "number", "boolean"} THEN PrimToString(x)
    ELSE IF HasOwn(x, "display_value") THEN deep(x.v["display_value"])
    ELSE IF HasOwn(x, "value") THEN deep(x.v["value"])
    ELSE IF HasOwn(x, "name") THEN deep(x.v["name"])
    ELSE IF HasOwn(x, "user_name") THEN deep(x.v["user_name"])
    ELSE IF Len(x.keys) = 1 THEN deep(x.v[x.keys[1]])
    ELSE ""

\* lines 72-92
unwrapAuditVal(v) == Trim(deep(v))

(***************************************************************************)
(* Part II.  Configuration and the upstream record store                   *)
(***************************************************************************)

\* Values the USE_ADMIN_FOR_ALL environment variable is given; line 21 makes
\* it 'true' when the variable is unset.
EnvFlagValues == {"true", "TRUE", "false"}

\* String(...).toLowerCase() on those values
ToLowerCase(str) ==
    CASE str = "TRUE" -> "true"
      [] OTHER -> str

\* lines 164 and 306: String(USE_ADMIN_FOR_ALL).toLowerCase() === 'true'
AdminForAll == ToLowerCase(USE_ADMIN_FOR_ALL) = "true"

\* line 64 (the instance is the same in every credential and is left out)
adminCreds == [username |-> "admin", password |-> "pwAdmin"]

\* The strings of the model that have the shape /^[0-9a-f]{32}$/i: each
\* short name stands for one 32-character hexadecimal string.
HexIds == {"ua", "ub", "uc", "g1", "g2", "g3", "i1", "i2", "i3", "i4", "c1",
           "k1", "a1", "a2", "a3"}

\* (variant) no string is taken for an identifier
isSysId_none(str) == FALSE

\* line 66 and line 68
isSysId(str) == str \in HexIds

\* ---- the rows the upstream holds ----
sys_user == <<
    [sys_id |-> "ua", user_name |-> "alice", name |-> "Alice A", email |-> "alice@x",
     active |-> "true"],
    [sys_id |-> "ub", user_name |-> "bob", name |-> "Bob B", email |-> "bob@x",
     active |-> "true"],
    [sys_id |-> "uc", user_name |-> "carl", name |-> "Carl C", email |-> "carl@x",
     active |-> "false"] >>

\* the password the upstream holds for each login name
UpstreamPassword(userName) ==
    CASE userName = "alice" -> "pwA"
      [] userName = "bob" -> "pwB"
      [] userName = "carl" -> "pwC"
      [] OTHER -> "(no such user)"

sys_user_group == <<
    [sys_id |-> "g1", name |-> "Network"],
    [sys_id |-> "g2", name |-> "Database"],
    [sys_id |-> "g3", name |-> "Desktop"] >>

sys_user_grmember == <<
    [user |-> "ua", group |-> "g1"],
    [user |-> "ua", group |-> "g2"],
    [user |-> "uc", group |-> "g3"] >>

\* the task table and the tables that extend it
task == <<
    [sys_id |-> "i1", sys_class_name |-> "incident", assigned_to |-> "ua",
     assignment_group |-> "g1", state |-> "2"],
    [sys_id |-> "i2", sys_class_name |-> "incident", assigned_to |-> "ub",
     assignment_group |-> "g3", state |-> "2"],
    [sys_id |-> "i3", sys_class_name |-> "incident", assigned_to |-> "",
     assignment_group |-> "", state |-> "1"],
    [sys_id |-> "i4", sys_class_name |-> "incident", assigned_to |-> "ua",
     assignment_group |-> "g1", state |-> "7"],
    [sys_id |-> "i5", sys_class_name |-> "incident", assigned_to |-> "ub",
     assignment_group |-> "g2", state |-> "1"],
    [sys_id |-> "i6", sys_class_name |-> "incident", assigned_to |-> "",
     assignment_group |-> "g3", state |-> "1"],
    [sys_id |-> "i7", sys_class_name |-> "incident", assigned_to |-> "",
     assignment_group |-> "", state |-> "6"],
    [sys_id |-> "c1", sys_class_name |-> "change_request", assigned_to |-> "ub",
     assignment_group |-> "g3", state |-> "1"],
    [sys_id |-> "k1", sys_class_name |-> "task", assigned_to |-> "",
     assignment_group |-> "g2", state |-> "1"] >>

sysapproval_approver == <<
    [sys_id |-> "a1", approver |-> "ua", sysapproval |-> "c1", state |-> "requested"],
    [sys_id |-> "a2", approver |-> "ub", sysapproval |-> "i2", state |-> "requested"],
    [sys_id |-> "a3", approver |-> "", sysapproval |-> "k1", state |-> "requested"] >>

sys_journal_field == <<
    [element_id |-> "i1", element |-> "work_notes", value |-> "looking",
     sys_created_on |-> <<0, 3>>, sys_created_by |-> "alice"],
    [element_id |-> "i2", element |-> "comments", value |-> "please fix",
     sys_created_on |-> <<0, 2>>, sys_created_by |-> "bob"],
    [element_id |-> "i1", element |-> "comments", value |-> "Network",
     sys_created_on |-> <<0, 3>>, sys_created_by |-> "alice"] >>

\* A timestamp is held as its digits: upstream timestamps have one fixed,
\* zero-padded format, so only the digits' order matters.
sys_audit == <<
    [documentkey |-> "i1", fieldname |-> "assigned_to", tablename |-> "incident",
     oldvalue |-> "", newvalue |-> "ua",
     sys_created_on |-> <<0, 2>>, sys_created_by |-> "admin"],
    [documentkey |-> "i1", fieldname |-> "assignment_group", tablename |-> "task",
     oldvalue |-> "g3", newvalue |-> "g1",
     sys_created_on |-> <<0, 2>>, sys_created_by |-> "admin"],
    [documentkey |-> "i1", fieldname |-> "state", tablename |-> "task",
     oldvalue |-> "1", newvalue |-> "2",
     sys_created_on |-> <<0, 3>>, sys_created_by |-> "alice"],
    [documentkey |-> "i2", fieldname |-> "assigned_to", tablename |-> "incident",
     oldvalue |-> "ub", newvalue |-> "",
     sys_created_on |-> <<0, 1>>, sys_created_by |-> "admin"],
    [documentkey |-> "i2", fieldname |-> "incident_state", tablename |-> "incident",
     oldvalue |-> "1", newvalue |-> "2",
     sys_created_on |-> <<0, 4>>, sys_created_by |-> "system"],
    [documentkey |-> "i2", fieldname |-> "state", tablename |-> "task",
     oldvalue |-> "1", newvalue |-> "2",
     sys_created_on |-> <<0, 4>>, sys_created_by |-> "bob"],
    [documentkey |-> "i2", fieldname |-> "incident_state", tablename |-> "incident",
     oldvalue |-> "2", newvalue |-> "3",
     sys_created_on |-> <<1, 0>>, sys_created_by |-> "bob"],
    [documentkey |-> "i1", fieldname |-> "work_notes", tablename |-> "incident",
     oldvalue |-> "", newvalue |-> "looking",
     sys_created_on |-> <<0, 3>>, sys_created_by |-> "alice"],
    [documentkey |-> "i2", fieldname |-> "Work_Notes", tablename |-> "incident",
     oldvalue |-> "", newvalue |-> "on it",
     sys_created_on |-> <<0, 5>>, sys_created_by |-> "bob"] >>

TaskTables == {"task", "incident", "change_request", "sc_request", "sc_req_item"}

\* the rows of a table; a table that extends task holds the task rows of its
\* class, and task holds them all
TableRows(t) ==
    CASE t = "sys_user" -> sys_user
      [] t = "sys_user_group" -> sys_user_group
      [] t = "sys_user_grmember" -> sys_user_grmember
      [] t = "sysapproval_approver" -> sysapproval_approver
      [] t = "sys_journal_field" -> sys_journal_field
      [] t = "sys_audit" -> sys_audit
      [] t = "task" -> task
      [] t \in TaskTables -> SelectSeq(task, LAMBDA r : r.sys_class_name = t)
      [] OTHER -> << >>

SeqToSet(q) == {q[i] : i \in 1..Len(q)}

\* An encoded query is a sequence of ^NQ blocks; a block is a sequence of
\* ^-joined terms; a term is a sequence of ^OR-joined conditions
\* [f, op, v].  A row matches when some block has every term matched by one
\* of its conditions.
\* s LIKE v on the strings of the model: v occurs in s
Like(str, v) ==
    \/ str = v
    \/ <<v, str>> \in {<<"ali", "alice">>, <<"ali", "Alice A">>, <<"bo", "bob">>,
                       <<"Net", "Network">>, <<"D", "Database">>, <<"D", "Desktop">>}

CondHolds(row, c) ==
    /\ c.f \in DOMAIN row
    /\ CASE c.op = "=" -> row[c.f] = c.v
         [] c.op = "IN" -> row[c.f] \in SeqToSet(c.v)
         [] c.op = "NOT IN" -> row[c.f] \notin SeqToSet(c.v)
         [] c.op = "ISEMPTY" -> row[c.f] = ""
         [] c.op = "LIKE" -> Like(row[c.f], c.v)
         [] OTHER -> FALSE

QueryMatches(row, q) ==
    \E b \in 1..Len(q) :
        \A t \in 1..Len(q[b]) :
            \E c \in 1..Len(q[b][t]) : CondHolds(row, q[b][t][c])

Take(q, n) == IF Len(q) <= n THEN q ELSE SubSeq(q, 1, n)

\* HTTP basic authentication at the upstream
CredsValid(c) ==
    \/ c = adminCreds
    \/ \E i \in 1..Len(sys_user) :
        /\ sys_user[i].user_name = c.username
        /\ UpstreamPassword(c.username) = c.password

\* An sn(...) call as the handlers make it: the credential, the method, the
\* table and record of the path, and the sysparm_query, sysparm_limit and
\* display-value parameter of the query string; then the JSON body.
SnReq(using, method, table, sysId, query, limit, flag, body) ==
    [using |-> using, method |-> method, table |-> table, sys_id |-> sysId,
     query |-> query, limit |-> limit, flag |-> flag, body |-> body]

NoBody == [none |-> TRUE]

DisplayAll == "sysparm_display_value=all"

InputDisplay == "sysparm_input_display_value=true"

\* the fields that refer to another record
RefFields == {"group", "user", "assigned_to", "assignment_group", "approver",
              "sysapproval"}

\* the fields the handlers read as plain strings whatever the parameter is
\* (the journal and audit feeds of the activity handler, lines 534-582)
FeedFields == {"fieldname", "sys_created_on", "sys_created_by", "element", "tablename",
               "documentkey", "element_id"}

\* A row as the Table API returns it: with sysparm_display_value=all each
\* field is {display_value, value}; otherwise a reference field is
\* {link, value} and every other field a string.
Shape(row, flag) ==
    [f \in DOMAIN row |->
        IF f \in FeedFields THEN row[f]
        ELSE IF flag = DisplayAll THEN Displayed(row[f], row[f])
        ELSE IF f \in RefFields /\ row[f] # "" THEN Reference(row[f])
        ELSE JsStr(row[f])]

ShapeAll(rows, flag) == [i \in 1..Len(rows) |-> Shape(rows[i], flag)]

\* What sn(...) gives its caller (Part I): the parsed body, or it throws.
\* A body may come back without a `result`: Part I returns {} for a 2xx
\* response whose text is empty, unreadable or not JSON.
SnOk(result) == [ok |-> TRUE, hasResult |-> TRUE, result |-> result]

SnEmpty == [ok |-> TRUE, hasResult |-> FALSE, result |-> << >>]

SnThrow(msg) == [ok |-> FALSE, hasResult |-> FALSE, result |-> msg]

\* The upstream's answer to a call that reaches it
UpstreamAnswer(c) ==
    IF ~CredsValid(c.using) THEN SnThrow("User Not Authenticated")
    ELSE IF c.sys_id = ""
    THEN SnOk(ShapeAll(Take(SelectSeq(TableRows(c.table),
                                      LAMBDA r : QueryMatches(r, c.query)),
                            c.limit),
                       c.flag))
    ELSE LET hit == SelectSeq(TableRows(c.table), LAMBDA r : r.sys_id = c.sys_id) IN
         IF Len(hit) = 0 THEN SnThrow("No Record found")
         ELSE SnOk(Shape(hit[1], c.flag))

\* The fate of the k-th call of a request: `fate` names the calls that
\* throw after their retries ("raise") and those that return {} ("empty");
\* every other call gets the upstream's answer.
CallFates == {"answer", "raise", "empty"}

SnResult(c, k, fate) ==
    IF k \in DOMAIN fate /\ fate[k] = "raise" THEN SnThrow("upstream failure")
    ELSE IF k \in DOMAIN fate /\ fate[k] = "empty" THEN SnEmpty
    ELSE UpstreamAnswer(c)

(***************************************************************************)
(* Part II.  Session Store, requireAuth, login                             *)
(***************************************************************************)

\* the tokens crypto.randomBytes(24).toString('hex') produces, one per login
TokenPool == <<"7c1e", "03bf", "d52a", "9e40", "61aa">>

\* Map.get: undefined for a key the map does not hold
Undefined == [undefined |-> TRUE]

MapGet(m, k) == IF k \in DOMAIN m THEN m[k] ELSE Undefined

\* (variant) a key that is set keeps the value it has
MapSet_keepExisting(m, k, v) == [x \in DOMAIN m \cup {k} |-> IF x \in DOMAIN m THEN m[x] ELSE v]

MapSet(m, k, v) == [x \in DOMAIN m \cup {k} |-> IF x = k THEN v ELSE m[x]]

\* The Authorization header of a request: absent, 'Bearer <cred>', or another
\* scheme.
NoAuthorization == [scheme |-> "", cred |-> ""]

\* (variant) the credential of any Authorization scheme is taken as the token
TokenOf_anyScheme(r) ==
    IF r.authorization.cred # "" THEN r.authorization.cred ELSE r.queryToken

\* lines 169-170
TokenOf(r) ==
    IF r.authorization.scheme = "Bearer" THEN r.authorization.cred ELSE r.queryToken

\* line 171: token && sessions.get(token)
SessionOf(r) == IF TokenOf(r) = "" THEN Undefined ELSE MapGet(sessions, TokenOf(r))

\* (variant) every request acts with the privileged credential
pickActingCreds_alwaysAdmin(session) == adminCreds

\* lines 163-166
pickActingCreds(session) ==
    IF AdminForAll THEN adminCreds
    ELSE IF session # Undefined THEN session.creds ELSE adminCreds

\* the response envelope
Reply(status, ok, result, message) ==
    [status |-> status, ok |-> ok, result |-> result, message |-> message]

NoResult == [none |-> TRUE]

\* lines 173-177
NotAuthenticated == Reply(401, FALSE, NoResult, "User Not Authenticated")

\* what a handler leaves behind: the sn calls it made, its response, and the
\* two process-wide maps as it leaves them
Outcome(cs, r, ss, nc) == [calls |-> cs, res |-> r, sessions |-> ss, nameCache |-> nc]

Cond(f, op, v) == [f |-> f, op |-> op, v |-> v]

\* (gm.result || []).map(r => r.group?.value || r.group || '').filter(Boolean)
GroupOfRow(row) ==
    LET g == IF "group" \in DOMAIN row THEN row.group ELSE JsUndefined IN
    IF ~Falsy(Get(g, "value")) THEN Get(g, "value")
    ELSE IF ~Falsy(g) THEN g
    ELSE JsStr("")

\* a value as a template literal or Array.prototype.join writes it
TemplateString(x) == IF IsObject(x) THEN "[object Object]" ELSE PrimToString(x)

GroupsOf(r) ==
    IF ~r.hasResult THEN << >>
    ELSE LET gs == [i \in 1..Len(r.result) |-> GroupOfRow(r.result[i])]
             kept == SelectSeq(gs, LAMBDA g : ~Falsy(g))
         IN [i \in 1..Len(kept) |-> TemplateString(kept[i])]

GrMemberReq(using, userSysId) ==
    SnReq(using, "GET", "sys_user_grmember", "",
          << << <<Cond("user", "=", userSysId)>> >> >>, 500, "", NoBody)

\* (variant) no second query with the privileged credential
getUserGroups_noFallback(using, userSysId, k, fate) ==
    LET c1 == GrMemberReq(using, userSysId)
        First(r1) == [groups |-> IF r1.ok THEN GroupsOf(r1) ELSE << >>, calls |-> <<c1>>]
    IN First(SnResult(c1, k, fate))

\* lines 205-222; k is the number of the first call it makes
getUserGroups(using, userSysId, k, fate) ==
    LET c1 == GrMemberReq(using, userSysId)
        c2 == GrMemberReq(adminCreds, userSysId)
        \* lines 213-220: the catch block asks again as the integration user
        Second(r2) == [groups |-> IF r2.ok THEN GroupsOf(r2) ELSE << >>,
                       calls |-> <<c1, c2>>]
        First(r1) == IF r1.ok THEN [groups |-> GroupsOf(r1), calls |-> <<c1>>]
                     ELSE Second(SnResult(c2, k + 1, fate))
    IN First(SnResult(c1, k, fate))

\* (variant) the identity lookup is made as the integration user
LoginUsing_admin(username, password) == adminCreds

\* line 297
LoginUsing(username, password) == [username |-> username, password |-> password]

\* lines 298-300
IdentityLookupReq(using, username) ==
    SnReq(using, "GET", "sys_user", "",
          << << <<Cond("user_name", "=", username)>>, <<Cond("active", "=", "true")>> >> >>,
          1, "", NoBody)

\* line 301: Array.isArray(data?.result) ? data.result[0] : null
FirstRow(d) == IF d.hasResult /\ Len(d.result) > 0 THEN d.result[1] ELSE Undefined

\* user?.sys_id
SysIdOf(user) ==
    IF user = Undefined THEN JsUndefined
    ELSE IF "sys_id" \in DOMAIN user THEN user.sys_id
    ELSE JsUndefined

\* (variant) line 302 lets every lookup result through
UserAccepted_any(user) == TRUE

\* line 302: if (!user?.sys_id) throw new Error('Invalid credentials')
UserAccepted(user) == ~Falsy(SysIdOf(user))

\* (variant) the login credential is stored whatever the flag says
SessionCreds_alwaysUser(via, using) == using

\* line 307: creds: via === 'user' ? using : adminCreds
SessionCreds(via, using) == IF via = "user" THEN using ELSE adminCreds

\* POST /api/login, lines 291-314
Login(r, fate, token) ==
    LET username == r.body.username
        password == r.body.password
        using == LoginUsing(username, password)
        c == IdentityLookupReq(using, username)
        via == IF AdminForAll THEN "admin" ELSE "user"
        Unauthorized == Outcome(<<c>>, Reply(401, FALSE, NoResult, "User Not Authorized"),
                                sessions, nameCache)
        \* lines 304-310
        Store(user, g) ==
            Outcome(<<c>> \o g.calls,
                    Reply(200, TRUE,
                          [token |-> token, user |-> user, via |-> via, groups |-> g.groups],
                          ""),
                    MapSet(sessions, token,
                           [user |-> user, via |-> via, creds |-> SessionCreds(via, using),
                            userSysId |-> TemplateString(SysIdOf(user)),
                            groups |-> g.groups]),
                    nameCache)
        \* lines 301-303
        Found(user) ==
            IF ~UserAccepted(user) THEN Unauthorized
            ELSE Store(user, getUserGroups(using, TemplateString(SysIdOf(user)), 2, fate))
        Looked(d) == IF ~d.ok THEN Unauthorized ELSE Found(FirstRow(d))
    IN IF username = "" \/ password = ""
       THEN Outcome(<< >>, Reply(400, FALSE, NoResult, "Missing username/password"),
                    sessions, nameCache)
       ELSE Looked(SnResult(c, 1, fate))
(***************************************************************************)
(* Part II.  The route handlers behind requireAuth                         *)
(***************************************************************************)

\* data.result || [] (and data.result || {} for a single record)
ResultOr(d, dflt) == IF d.hasResult THEN d.result ELSE dflt

\* a catch block that answers success whatever was raised
Failed_swallowed(message) == Reply(200, TRUE, TRUE, "")

Failed(message) == Reply(500, FALSE, NoResult, message)

\* the groups a list handler scopes by: lines 344, 366, 389
ScopeGroups(session, fate) ==
    IF Len(session.groups) > 0
    THEN [groups |-> session.groups, calls |-> << >>]
    ELSE getUserGroups(pickActingCreds(session), session.userSysId, 1, fate)

\* (variant) the unassigned block of the incidents query without its state
\* condition
IncidentsQuery_openUnassigned(userId, groups) ==
    LET stateCond == <<Cond("state", "NOT IN", <<"6", "7">>)>>
        mine == <<stateCond, <<Cond("assigned_to", "=", userId)>>>>
        myGroups == <<stateCond, <<Cond("assignment_group", "IN", groups)>>>>
        unassigned == <<<<Cond("assigned_to", "ISEMPTY", "")>>,
                        <<Cond("assignment_group", "ISEMPTY", "")>>>>
    IN IF Len(groups) > 0 THEN <<mine, myGroups, unassigned>> ELSE <<mine, unassigned>>

\* lines 346-350
IncidentsQuery(userId, groups) ==
    LET stateCond == <<Cond("state", "NOT IN", <<"6", "7">>)>>
        mine == <<stateCond, <<Cond("assigned_to", "=", userId)>>>>
        myGroups == <<stateCond, <<Cond("assignment_group", "IN", groups)>>>>
        unassigned == <<stateCond, <<Cond("assigned_to", "ISEMPTY", "")>>,
                        <<Cond("assignment_group", "ISEMPTY", "")>>>>
    IN IF Len(groups) > 0 THEN <<mine, myGroups, unassigned>> ELSE <<mine, unassigned>>

\* lines 368-373
TasksQuery(userId, groups) ==
    LET stateCond == <<Cond("state", "NOT IN", <<"3", "6", "7">>)>>
        notClasses == <<Cond("sys_class_name", "NOT IN", <<"incident", "sc_req_item">>)>>
        mine == <<stateCond, notClasses, <<Cond("assigned_to", "=", userId)>>>>
        myGroups == <<stateCond, notClasses, <<Cond("assignment_group", "IN", groups)>>>>
        unassigned == <<stateCond, notClasses, <<Cond("assigned_to", "ISEMPTY", "")>>,
                        <<Cond("assignment_group", "ISEMPTY", "")>>>>
    IN IF Len(groups) > 0 THEN <<mine, myGroups, unassigned>> ELSE <<mine, unassigned>>

\* lines 391-395
ApprovalsQuery(userId, groups) ==
    LET stateCond == <<Cond("state", "=", "requested")>>
        mine == <<stateCond, <<Cond("approver", "=", userId)>>>>
        myGroups == <<stateCond, <<Cond("approver", "IN", groups)>>>>
        unassigned == <<stateCond, <<Cond("approver", "ISEMPTY", "")>>>>
    IN IF Len(groups) > 0 THEN <<mine, myGroups, unassigned>> ELSE <<mine, unassigned>>

\* the three list handlers share their shape, lines 340-406: `before` are
\* the calls the group lookup made
ListHandler(session, fate, table, before, query, message) ==
    LET c == SnReq(pickActingCreds(session), "GET", table, "", query, 100, DisplayAll, NoBody)
        Listed(d) ==
            IF d.ok
            THEN Outcome(before \o <<c>>, Reply(200, TRUE, ResultOr(d, << >>), ""),
                         sessions, nameCache)
            ELSE Outcome(before \o <<c>>, Failed(message), sessions, nameCache)
    IN Listed(SnResult(c, Len(before) + 1, fate))

\* GET /api/incidents
Incidents(session, r, fate) ==
    LET Scoped(g) == ListHandler(session, fate, "incident", g.calls,
                                 IncidentsQuery(session.userSysId, g.groups), "List failed")
    IN Scoped(ScopeGroups(session, fate))

\* GET /api/tasks
Tasks(session, r, fate) ==
    LET Scoped(g) == ListHandler(session, fate, "task", g.calls,
                                 TasksQuery(session.userSysId, g.groups), "List failed")
    IN Scoped(ScopeGroups(session, fate))

\* GET /api/approvals
Approvals(session, r, fate) ==
    LET Scoped(g) == ListHandler(session, fate, "sysapproval_approver", g.calls,
                                 ApprovalsQuery(session.userSysId, g.groups),
                                 "Approvals failed")
    IN Scoped(ScopeGroups(session, fate))

\* a handler that makes one call and hands its result on
OneCall(c, fate, dflt, message) ==
    LET Called(d) ==
            IF d.ok
            THEN Outcome(<<c>>, Reply(200, TRUE, ResultOr(d, dflt), ""), sessions, nameCache)
            ELSE Outcome(<<c>>, Failed(message), sessions, nameCache)
    IN Called(SnResult(c, 1, fate))

EmptyRecord == [empty |-> TRUE]

\* GET /api/record/:table/:sys_id, lines 468-482
GetRecord(session, r, fate) ==
    LET using == pickActingCreds(session)
        t == Trim(r.table)
        id == Trim(r.sys_id)
    IN IF t = "" \/ id = ""
       THEN Outcome(<< >>, Reply(400, FALSE, NoResult, "Bad request"), sessions, nameCache)
       ELSE OneCall(SnReq(using, "GET", t, id, << >>, 1, DisplayAll, NoBody), fate, EmptyRecord,
                    "No Record found")

\* GET /api/change/:sys_id/details, lines 484-493
ChangeDetails(session, r, fate) ==
    OneCall(SnReq(pickActingCreds(session), "GET", "change_request", r.sys_id, << >>, 1,
                  DisplayAll, NoBody),
            fate, EmptyRecord, "Change details failed")

\* element_id=<sys_id>^elementINwork_notes,comments
JournalQuery(sysId) ==
    << << <<Cond("element_id", "=", sysId)>>,
          <<Cond("element", "IN", <<"work_notes", "comments">>)>> >> >>

\* GET /api/record/:table/:sys_id/work_notes/all, lines 495-507
WorkNotesAll(session, r, fate) ==
    OneCall(SnReq(pickActingCreds(session), "GET", "sys_journal_field", "",
                  JournalQuery(r.sys_id), 1000, "", NoBody),
            fate, << >>, "Notes fetch failed")

\* line 610 and line 193
UserSearchQuery(v) ==
    << << <<Cond("user_name", "=", v), Cond("name", "=", v), Cond("email", "=", v),
            Cond("user_name", "LIKE", v), Cond("name", "LIKE", v),
            Cond("email", "LIKE", v)>> >> >>

\* line 627 and line 197
GroupSearchQuery(v) ==
    << << <<Cond("name", "=", v), Cond("name", "LIKE", v)>> >> >>

\* GET /api/search/users and /api/search/groups, lines 604-636
Search(session, r, fate, table, query, message) ==
    IF Trim(r.q) = ""
    THEN Outcome(<< >>, Reply(200, TRUE, << >>, ""), sessions, nameCache)
    ELSE OneCall(SnReq(pickActingCreds(session), "GET", table, "", query, 20, DisplayAll, NoBody),
                 fate, << >>, message)

SearchUsers(session, r, fate) ==
    Search(session, r, fate, "sys_user", UserSearchQuery(Trim(r.q)), "User search failed")

SearchGroups(session, r, fate) ==
    Search(session, r, fate, "sys_user_group", GroupSearchQuery(Trim(r.q)),
           "Group search failed")

\* GET /api/debug/session, lines 317-335
DebugSession(session, r, fate) ==
    LET c == GrMemberReq(pickActingCreds(session), session.userSysId)
        Called(d) ==
            IF d.ok
            THEN Outcome(<<c>>,
                         Reply(200, TRUE,
                               [via |-> session.via, user_sys_id |-> session.userSysId,
                                stored_groups |-> session.groups,
                                fresh_groups |-> GroupsOf(d)],
                               ""),
                         sessions, nameCache)
            ELSE Outcome(<<c>>, Failed("Debug failed"), sessions, nameCache)
    IN Called(SnResult(c, 1, fate))

\* line 426
ApprovalTargetTables == <<"change_request", "sc_request", "sc_req_item", "incident", "task">>

\* lines 429-434: the candidate tables are tried in order from the i-th on,
\* call number k being the next; a call that throws is skipped
RECURSIVE FindTarget(_, _, _, _, _)
FindTarget(using, targetId, i, k, fate) ==
    IF i > Len(ApprovalTargetTables)
    THEN [calls |-> << >>, target |-> Undefined, targetTable |-> ""]
    ELSE LET c == SnReq(using, "GET", ApprovalTargetTables[i], targetId, << >>, 1, DisplayAll,
                        NoBody)
             Next1(rest) == [calls |-> <<c>> \o rest.calls, target |-> rest.target,
                             targetTable |-> rest.targetTable]
             Tried(d) ==
                IF d.ok /\ d.hasResult /\ ~Falsy(d.result.sys_id)
                THEN [calls |-> <<c>>, target |-> d.result,
                      targetTable |-> ApprovalTargetTables[i]]
                ELSE Next1(FindTarget(using, targetId, i + 1, k + 1, fate))
         IN Tried(SnResult(c, k, fate))

\* line 425: approval.sysapproval?.value || approval.sysapproval
ApprovalTargetId(approval) ==
    IF ~Falsy(Get(approval.sysapproval, "value"))
    THEN TemplateString(Get(approval.sysapproval, "value"))
    ELSE TemplateString(approval.sysapproval)

\* GET /api/approval/:sys_id, lines 411-441
ApprovalDetails(session, r, fate) ==
    LET using == pickActingCreds(session)
        c == SnReq(using, "GET", "sysapproval_approver", r.sys_id, << >>, 1, DisplayAll,
                   NoBody)
        Detailed(approval, f) ==
            Outcome(<<c>> \o f.calls,
                    Reply(200, TRUE,
                          [approval |-> approval, target |-> f.target,
                           targetTable |-> f.targetTable],
                          ""),
                    sessions, nameCache)
        Fetched(d) ==
            IF ~d.ok
            THEN Outcome(<<c>>, Failed("Approval details failed"), sessions, nameCache)
            ELSE IF ~d.hasResult
            THEN Outcome(<<c>>, Reply(404, FALSE, NoResult, "Approval not found"),
                         sessions, nameCache)
            ELSE Detailed(d.result,
                          FindTarget(using, ApprovalTargetId(d.result), 1, 2, fate))
    IN Fetched(SnResult(c, 1, fate))

\* what stateMap.constructor is: the Object function every object literal
\* inherits, a truthy value
ObjectConstructor == "function Object() { [native code] }"

\* lines 449-450: stateMap[String(decision || '').toLowerCase()]; the lookup
\* is by property name, so it also finds what stateMap inherits
DecisionState(decision) ==
    CASE decision \in {"approve", "Approve", "approved"} -> "approved"
      [] decision \in {"reject", "rejected"} -> "rejected"
      [] decision = "constructor" -> ObjectConstructor
      [] OTHER -> ""

\* lines 453-454, as JSON.stringify sends it (line 113): a property whose
\* value is a function is left out
DecisionPayload(newState, comments) ==
    LET state == IF newState = ObjectConstructor THEN << >>
                 ELSE [state |-> newState]
    IN IF comments # "" THEN state @@ [comments |-> comments] ELSE state

\* POST /api/approval/:sys_id/decide, lines 443-463
ApprovalDecide(session, r, fate) ==
    LET using == pickActingCreds(session)
        newState == DecisionState(r.body.decision)
        c == SnReq(using, "PATCH", "sysapproval_approver", r.sys_id, << >>, 1,
                   InputDisplay, DecisionPayload(newState, r.body.comments))
        Patched(d) ==
            IF d.ok
            THEN Outcome(<<c>>, Reply(200, TRUE, ResultOr(d, TRUE), ""), sessions, nameCache)
            ELSE Outcome(<<c>>, Failed("Approval action failed"), sessions, nameCache)
    IN IF newState = ""
       THEN Outcome(<< >>, Reply(400, FALSE, NoResult, "Invalid decision"),
                    sessions, nameCache)
       ELSE Patched(SnResult(c, 1, fate))

(***************************************************************************)
(* Part II.  Reference Resolver and the record update handler              *)
(***************************************************************************)

\* (variant) a lookup that throws is taken for a lookup that found nothing
resolveRef_swallowsFailure(using, forceTable, displayOrId, k, fate) ==
    LET candidate == pickId(displayOrId)
        v == TemplateString(candidate)
        c == IF forceTable = "sys_user"
             THEN SnReq(using, "GET", "sys_user", "", UserSearchQuery(v), 1, "", NoBody)
             ELSE SnReq(using, "GET", "sys_user_group", "", GroupSearchQuery(v), 1, "",
                        NoBody)
        Hit(hit) == [value |-> IF ~Falsy(SysIdOf(hit)) THEN SysIdOf(hit) ELSE candidate,
                     calls |-> <<c>>, threw |-> FALSE]
        Searched(d) ==
            IF ~d.ok THEN [value |-> candidate, calls |-> <<c>>, threw |-> FALSE]
            ELSE Hit(FirstRow(d))
    IN IF Falsy(candidate)
       THEN [value |-> candidate, calls |-> << >>, threw |-> FALSE]
       ELSE IF candidate.t = "string" /\ isSysId(candidate.v)
       THEN [value |-> candidate, calls |-> << >>, threw |-> FALSE]
       ELSE Searched(SnResult(c, k, fate))

\* (variant) a lookup without a hit gives null instead of the input
resolveRef_nullOnMiss(using, forceTable, displayOrId, k, fate) ==
    LET candidate == pickId(displayOrId)
        v == TemplateString(candidate)
        c == IF forceTable = "sys_user"
             THEN SnReq(using, "GET", "sys_user", "", UserSearchQuery(v), 1, "", NoBody)
             ELSE SnReq(using, "GET", "sys_user_group", "", GroupSearchQuery(v), 1, "",
                        NoBody)
        Hit(hit) == [value |-> IF ~Falsy(SysIdOf(hit)) THEN SysIdOf(hit) ELSE JsNull,
                     calls |-> <<c>>, threw |-> FALSE]
        Searched(d) ==
            IF ~d.ok THEN [value |-> candidate, calls |-> <<c>>, threw |-> TRUE]
            ELSE Hit(FirstRow(d))
    IN IF Falsy(candidate)
       THEN [value |-> candidate, calls |-> << >>, threw |-> FALSE]
       ELSE IF candidate.t = "string" /\ isSysId(candidate.v)
       THEN [value |-> candidate, calls |-> << >>, threw |-> FALSE]
       ELSE Searched(SnResult(c, k, fate))

\* lines 184-203; k is the number of the call it makes, if it makes one.
\* It gives the resolved value, the calls made, and whether sn threw.
resolveRef(using, forceTable, displayOrId, k, fate) ==
    LET candidate == pickId(displayOrId)
        v == TemplateString(candidate)
        c == IF forceTable = "sys_user"
             THEN SnReq(using, "GET", "sys_user", "", UserSearchQuery(v), 1, "", NoBody)
             ELSE SnReq(using, "GET", "sys_user_group", "", GroupSearchQuery(v), 1, "",
                        NoBody)
        Hit(hit) == [value |-> IF ~Falsy(SysIdOf(hit)) THEN SysIdOf(hit) ELSE candidate,
                     calls |-> <<c>>, threw |-> FALSE]
        Searched(d) ==
            IF ~d.ok THEN [value |-> candidate, calls |-> <<c>>, threw |-> TRUE]
            ELSE Hit(FirstRow(d))
    IN IF Falsy(candidate)
       THEN [value |-> candidate, calls |-> << >>, threw |-> FALSE]
       ELSE IF candidate.t = "string" /\ isSysId(candidate.v)
       THEN [value |-> candidate, calls |-> << >>, threw |-> FALSE]
       ELSE Searched(SnResult(c, k, fate))

\* body.<field>: undefined when the body does not carry the field
BodyField(body, f) == IF f \in DOMAIN body THEN body[f] ELSE JsUndefined

\* line 647
norm(v) ==
    IF v.t \in {"null", "undefined"} \/ (v.t = "string" /\ v.v = "") THEN JsUndefined ELSE v

\* lines 234-245
contributorFromSession(session) ==
    LET u == session.user
        pick(f) == IF ~Falsy(Get(BodyField(u, f), "display_value"))
                   THEN Get(BodyField(u, f), "display_value")
                   ELSE BodyField(u, f)
    IN IF session = Undefined THEN "unknown"
       ELSE IF ~Falsy(pick("user_name")) THEN TemplateString(pick("user_name"))
       ELSE IF ~Falsy(pick("email")) THEN TemplateString(pick("email"))
       ELSE IF ~Falsy(pick("name")) THEN TemplateString(pick("name"))
       ELSE "unknown"

\* lines 679-682: `${s}\n#Cont. by ${who}`, held as its two parts
stamp(txt, who) ==
    IF Trim(txt) # "" THEN [text |-> Trim(txt), contBy |-> who] ELSE [text |-> "", contBy |-> ""]

\* lines 685-686: String(body.<journal field>).trim(), or undefined
JournalInput(body, f) ==
    IF BodyField(body, f).t = "undefined" THEN JsUndefined
    ELSE JsStr(Trim(TemplateString(BodyField(body, f))))

\* (variant) the journal fields are sent with the structured ones
PlainFields_withJournal == <<"state", "impact", "urgency", "priority", "short_description",
                             "description", "work_notes", "comments">>

PlainFields == <<"state", "impact", "urgency", "priority", "short_description",
                 "description">>

\* lines 661-670: the structured fields that are sent
fieldsPayload(body, assigned_to, assignment_group) ==
    LET plain == {f \in SeqToSet(PlainFields) : norm(BodyField(body, f)).t # "undefined"}
        refs == (IF assigned_to.t # "undefined" THEN {"assigned_to"} ELSE {})
                \cup (IF assignment_group.t # "undefined" THEN {"assignment_group"} ELSE {})
    IN [f \in plain \cup refs |->
            IF f = "assigned_to" THEN assigned_to
            ELSE IF f = "assignment_group" THEN assignment_group
            ELSE norm(BodyField(body, f))]

\* lines 688-690
notesPayload(body, who) ==
    LET wn == JournalInput(body, "work_notes")
        ac == JournalInput(body, "comments")
        present == (IF wn.t # "undefined" THEN {"work_notes"} ELSE {})
                   \cup (IF ac.t # "undefined" THEN {"comments"} ELSE {})
    IN [f \in present |-> stamp((IF f = "work_notes" THEN wn ELSE ac).v, who)]

\* (variant) the journal PATCH is issued whether or not the structured PATCH
\* went through
UpdateRecord_writesNotesAnyway(session, r, fate) ==
    LET using == pickActingCreds(session)
        body == r.body
        c1 == SnReq(using, "GET", r.table, r.sys_id, << >>, 1, DisplayAll, NoBody)
        a0 == IF BodyField(body, "assigned_to").t # "undefined"
              THEN pickId(BodyField(body, "assigned_to")) ELSE JsUndefined
        g0 == IF BodyField(body, "assignment_group").t # "undefined"
              THEN pickId(BodyField(body, "assignment_group")) ELSE JsUndefined
        NotResolved == [value |-> JsUndefined, calls |-> << >>, threw |-> FALSE]
        fail(cs) == Outcome(cs, Failed("Update failed"), sessions, nameCache)
        done(cs) == Outcome(cs, Reply(200, TRUE, TRUE, ""), sessions, nameCache)
        \* lines 692-697
        NotesSent(cs, d4) == IF ~d4.ok THEN fail(cs) ELSE done(cs)
        \* lines 678-690
        Notes(cs, np) ==
            IF DOMAIN np = {} THEN done(cs)
            ELSE NotesSent(cs \o <<SnReq(using, "PATCH", r.table, r.sys_id, << >>, 1,
                                         InputDisplay, np)>>,
                           SnResult(SnReq(using, "PATCH", r.table, r.sys_id, << >>, 1,
                                          InputDisplay, np),
                                    Len(cs) + 1, fate))
        FieldsSent(cs, d3) ==
            Notes(cs, notesPayload(body, contributorFromSession(session)))
        \* lines 661-675
        Fields(cs, fp) ==
            IF DOMAIN fp = {}
            THEN FieldsSent(cs, SnEmpty)
            ELSE FieldsSent(cs \o <<SnReq(using, "PATCH", r.table, r.sys_id, << >>, 1, "",
                                          fp)>>,
                            SnResult(SnReq(using, "PATCH", r.table, r.sys_id, << >>, 1, "",
                                           fp),
                                     Len(cs) + 1, fate))
        \* line 658
        Group(cs, ra, rg) ==
            IF rg.threw THEN fail(cs \o rg.calls)
            ELSE Fields(cs \o rg.calls, fieldsPayload(body, ra.value, rg.value))
        \* line 657
        Assignee(cs, ra) ==
            IF ra.threw THEN fail(cs \o ra.calls)
            ELSE Group(cs \o ra.calls, ra,
                       IF g0.t # "undefined"
                       THEN resolveRef(using, "sys_user_group", g0,
                                       Len(cs) + Len(ra.calls) + 1, fate)
                       ELSE NotResolved)
        \* lines 649-652
        Read(d1) ==
            IF ~d1.ok THEN fail(<<c1>>)
            ELSE Assignee(<<c1>>,
                          IF a0.t # "undefined"
                          THEN resolveRef(using, "sys_user", a0, 2, fate)
                          ELSE NotResolved)
    IN Read(SnResult(c1, 1, fate))

\* PATCH /api/record/:table/:sys_id, lines 641-705.  Each step takes the
\* calls made so far; the next call's number is one more than their count.
UpdateRecord(session, r, fate) ==
    LET using == pickActingCreds(session)
        body == r.body
        c1 == SnReq(using, "GET", r.table, r.sys_id, << >>, 1, DisplayAll, NoBody)
        a0 == IF BodyField(body, "assigned_to").t # "undefined"
              THEN pickId(BodyField(body, "assigned_to")) ELSE JsUndefined
        g0 == IF BodyField(body, "assignment_group").t # "undefined"
              THEN pickId(BodyField(body, "assignment_group")) ELSE JsUndefined
        NotResolved == [value |-> JsUndefined, calls |-> << >>, threw |-> FALSE]
        fail(cs) == Outcome(cs, Failed("Update failed"), sessions, nameCache)
        done(cs) == Outcome(cs, Reply(200, TRUE, TRUE, ""), sessions, nameCache)
        \* lines 692-697
        NotesSent(cs, d4) == IF ~d4.ok THEN fail(cs) ELSE done(cs)
        \* lines 678-690
        Notes(cs, np) ==
            IF DOMAIN np = {} THEN done(cs)
            ELSE NotesSent(cs \o <<SnReq(using, "PATCH", r.table, r.sys_id, << >>, 1,
                                         InputDisplay, np)>>,
                           SnResult(SnReq(using, "PATCH", r.table, r.sys_id, << >>, 1,
                                          InputDisplay, np),
                                    Len(cs) + 1, fate))
        FieldsSent(cs, d3) ==
            IF ~d3.ok THEN fail(cs)
            ELSE Notes(cs, notesPayload(body, contributorFromSession(session)))
        \* lines 661-675
        Fields(cs, fp) ==
            IF DOMAIN fp = {}
            THEN FieldsSent(cs, SnEmpty)
            ELSE FieldsSent(cs \o <<SnReq(using, "PATCH", r.table, r.sys_id, << >>, 1, "",
                                          fp)>>,
                            SnResult(SnReq(using, "PATCH", r.table, r.sys_id, << >>, 1, "",
                                           fp),
                                     Len(cs) + 1, fate))
        \* line 658
        Group(cs, ra, rg) ==
            IF rg.threw THEN fail(cs \o rg.calls)
            ELSE Fields(cs \o rg.calls, fieldsPayload(body, ra.value, rg.value))
        \* line 657
        Assignee(cs, ra) ==
            IF ra.threw THEN fail(cs \o ra.calls)
            ELSE Group(cs \o ra.calls, ra,
                       IF g0.t # "undefined"
                       THEN resolveRef(using, "sys_user_group", g0,
                                       Len(cs) + Len(ra.calls) + 1, fate)
                       ELSE NotResolved)
        \* lines 649-652
        Read(d1) ==
            IF ~d1.ok THEN fail(<<c1>>)
            ELSE Assignee(<<c1>>,
                          IF a0.t # "undefined"
                          THEN resolveRef(using, "sys_user", a0, 2, fate)
                          ELSE NotResolved)
    IN Read(SnResult(c1, 1, fate))
(***************************************************************************)
(* Part II.  Display-Name Cache and the activity handler                   *)
(***************************************************************************)

\* line 249
NAME_TTL_MS == 5 * 60 * 1000

\* the placeholder of lines 252, 285, 566 and 567
Dash == "-"

\* (variant) an entry is still served at the instant it expires
IsHit_atExpiry(hit, t) == hit # Undefined /\ hit.exp >= t

\* line 256: hit && hit.exp > now
IsHit(hit, t) == hit # Undefined /\ hit.exp > t

\* (variant) an entry that expires the instant it is stored
CacheEntry_stale(nm, t) == [name |-> nm, exp |-> t]

\* line 262: { name: nm, exp: now + NAME_TTL_MS }
CacheEntry(nm, t) == [name |-> nm, exp |-> t + NAME_TTL_MS]

\* (variant) a failed fetch stores the raw identifier as the label
_resolveDisplayName_cachesFailure(using, table, sysId, cache, k, fate) ==
    LET key == <<table, sysId.v>>
        hit == MapGet(cache, key)
        c == SnReq(using, "GET", table, sysId.v, << >>, 1, DisplayAll, NoBody)
        \* lines 260-262
        Named(nm) ==
            [name |-> nm, calls |-> <<c>>,
             cache |-> MapSet(cache, key, CacheEntry(nm, now))]
        Row(row) ==
            Named(IF ~Falsy(BodyField(row, "name")) THEN BodyField(row, "name")
                  ELSE IF ~Falsy(BodyField(row, "user_name")) THEN BodyField(row, "user_name")
                  ELSE sysId)
        Fetched(d) ==
            IF d.ok THEN Row(IF d.hasResult THEN d.result ELSE [none |-> JsUndefined])
            ELSE Named(sysId)
    IN IF Falsy(sysId)
       THEN [name |-> JsStr(Dash), calls |-> << >>, cache |-> cache]
       ELSE IF IsHit(hit, now)
       THEN [name |-> hit.name, calls |-> << >>, cache |-> cache]
       ELSE Fetched(SnResult(c, k, fate))

\* lines 251-268, for one sys_id (null when there is none); `cache` is the
\* map as the call finds it and k the number of the call it makes, if any.
\* It gives the label, the calls made and the map as the call leaves it.
_resolveDisplayName(using, table, sysId, cache, k, fate) ==
    LET key == <<table, sysId.v>>
        hit == MapGet(cache, key)
        c == SnReq(using, "GET", table, sysId.v, << >>, 1, DisplayAll, NoBody)
        \* lines 260-262
        Named(nm) ==
            [name |-> nm, calls |-> <<c>>,
             cache |-> MapSet(cache, key, CacheEntry(nm, now))]
        Row(row) ==
            Named(IF ~Falsy(BodyField(row, "name")) THEN BodyField(row, "name")
                  ELSE IF ~Falsy(BodyField(row, "user_name")) THEN BodyField(row, "user_name")
                  ELSE sysId)
        Fetched(d) ==
            IF d.ok THEN Row(IF d.hasResult THEN d.result ELSE [none |-> JsUndefined])
            ELSE [name |-> sysId, calls |-> <<c>>, cache |-> cache]
    IN IF Falsy(sysId)
       THEN [name |-> JsStr(Dash), calls |-> << >>, cache |-> cache]
       ELSE IF IsHit(hit, now)
       THEN [name |-> hit.name, calls |-> << >>, cache |-> cache]
       ELSE Fetched(SnResult(c, k, fate))

\* lines 252-256: the call gets as far as its fetch, having found no entry
\* it may serve; what is awaited elsewhere plays no part
StartsFetch(table, sysId, cache, t) ==
    /\ ~Falsy(sysId)
    /\ ~IsHit(MapGet(cache, <<table, sysId.v>>), t)

\* line 261: r?.result?.name || r?.result?.user_name || sys_id
FetchedLabel(d, sysId) ==
    LET row == IF d.hasResult THEN d.result ELSE [none |-> JsUndefined]
    IN IF ~Falsy(BodyField(row, "name")) THEN BodyField(row, "name")
       ELSE IF ~Falsy(BodyField(row, "user_name")) THEN BodyField(row, "user_name")
       ELSE sysId

\* lines 270-286 for the two assignment fields: both lookups start before
\* either fetch returns, so both read the map as the pair found it; the
\* writes land old value first
resolveAssignedDisplay(using, fieldname, oldVal, newVal, cache, k, fate) ==
    LET table == IF fieldname = "assigned_to" THEN "sys_user" ELSE "sys_user_group"
        wrote(x) == Len(x.calls) > 0 /\ x.cache # cache
        Written(o, n, c1) ==
            [old |-> o.name, new |-> n.name, calls |-> o.calls \o n.calls,
             cache |-> IF wrote(n)
                       THEN MapSet(c1, <<table, newVal.v>>, n.cache[<<table, newVal.v>>])
                       ELSE c1]
        Both(o, n) == Written(o, n, IF wrote(o) THEN o.cache ELSE cache)
        Old(o) == Both(o, _resolveDisplayName(using, table, newVal, cache,
                                              k + Len(o.calls), fate))
    IN Old(_resolveDisplayName(using, table, oldVal, cache, k, fate))

\* String.prototype.toLowerCase / toUpperCase on the field names of the model
LowerCase(str) ==
    CASE str = "State" -> "state"
      [] str = "Work_Notes" -> "work_notes"
      [] OTHER -> str

UpperCase(str) ==
    CASE str = "work_notes" -> "WORK_NOTES"
      [] str = "comments" -> "COMMENTS"
      [] OTHER -> str

\* a before b in the order of String.prototype.localeCompare, on digit strings
RECURSIVE LexLess(_, _)
LexLess(a, b) ==
    IF Len(b) = 0 THEN FALSE
    ELSE IF Len(a) = 0 THEN TRUE
    ELSE IF a[1] # b[1] THEN a[1] < b[1]
    ELSE LexLess(Tail(a), Tail(b))

\* documentkey=<sys_id>
AuditQuery(sysId) == << << <<Cond("documentkey", "=", sysId)>> >> >>

\* lines 534-540: one journal row as an entry
JournalEntry(row) ==
    LET body == IF Falsy(BodyField(row, "value")) THEN ""
                ELSE Trim(TemplateString(row.value))
    IN [ts |-> row.sys_created_on, by |-> row.sys_created_by,
        type |-> UpperCase(row.element),
        text |-> [body |-> body, field |-> "", old |-> "", new |-> "",
                  contBy |-> row.sys_created_by]]

\* lines 543-547
StateSeenAt(rows) ==
    {rows[i].sys_created_on : i \in {j \in 1..Len(rows) : LowerCase(rows[j].fieldname) = "state"}}

\* (variant) no audit row is taken for the echo of a journal field
IsJournalEcho_never(fl) == FALSE

\* line 555
IsJournalEcho(fl) == fl \in {"work_notes", "comments"}

\* (variant) every alias row is taken for a duplicate
IsDuplicateAlias_always(fl, row, seen) == fl = "incident_state"

\* (variant) no alias row is taken for a duplicate
IsDuplicateAlias_never(fl, row, seen) == FALSE

\* lines 558-561
IsDuplicateAlias(fl, row, seen) == fl = "incident_state" /\ row.sys_created_on \in seen

\* lines 571-572: SYSID_RE.test(String(raw || '')) ? String(raw) : null
SysIdOrNull(raw) == IF isSysId(raw) THEN JsStr(raw) ELSE JsNull

\* (variant) an unwrapped value is shown as it is, empty or not
Rendered_asIs(raw) == raw

\* lines 565-566: rawOld === '' || rawOld == null ? '-' : String(rawOld)
Rendered(raw) == IF raw = "" THEN Dash ELSE raw

\* lines 550-583 from the i-th audit row on; cache and k are threaded
\* through the awaits of the loop
RECURSIVE AuditEntries(_, _, _, _, _, _)
AuditEntries(rows, i, seen, cache, k, fate) ==
    IF i > Len(rows) THEN [entries |-> << >>, calls |-> << >>, cache |-> cache]
    ELSE
    LET r == rows[i]
        fl == LowerCase(r.fieldname)
        f == IF fl = "incident_state" THEN "state" ELSE r.fieldname
        rawOld == unwrapAuditVal(BodyField(r, "oldvalue"))
        rawNew == unwrapAuditVal(BodyField(r, "newvalue"))
        oldId == SysIdOrNull(rawOld)
        newId == SysIdOrNull(rawNew)
        resolves == fl \in {"assigned_to", "assignment_group"}
                        /\ (~Falsy(oldId) \/ ~Falsy(newId))
        Pushed(e, nm, rest) ==
            [entries |-> <<e>> \o rest.entries, calls |-> nm.calls \o rest.calls,
             cache |-> rest.cache]
        \* lines 574-582
        Entry(nm, oldVal, newVal) ==
            Pushed([ts |-> r.sys_created_on, by |-> r.sys_created_by, type |-> "FIELD",
                    text |-> [body |-> "", field |-> f, old |-> oldVal, new |-> newVal,
                              contBy |-> r.sys_created_by]],
                   nm,
                   AuditEntries(rows, i + 1, seen, nm.cache, k + Len(nm.calls), fate))
        \* lines 563-573
        Resolved(nm) ==
            Entry(nm,
                  IF resolves /\ ~Falsy(oldId) /\ ~Falsy(nm.old) THEN TemplateString(nm.old)
                  ELSE Rendered(rawOld),
                  IF resolves /\ ~Falsy(newId) /\ ~Falsy(nm.new) THEN TemplateString(nm.new)
                  ELSE Rendered(rawNew))
    IN IF IsJournalEcho(fl) \/ IsDuplicateAlias(fl, r, seen)
       THEN AuditEntries(rows, i + 1, seen, cache, k, fate)
       ELSE Resolved(IF resolves
                     THEN resolveAssignedDisplay(adminCreds, fl, oldId, newId, cache, k, fate)
                     ELSE [old |-> JsNull, new |-> JsNull, calls |-> << >>,
                           cache |-> cache])

\* (variant) the entries stay in the order they were pushed
SortNewestFirst_asPushed(entries) == entries

\* (variant) a sort that is not stable: an entry goes in front of the entries
\* of its own instant
RECURSIVE SortNewestFirst_unstable(_)
SortNewestFirst_unstable(entries) ==
    IF Len(entries) <= 1 THEN entries
    ELSE LET n == Len(entries)
             e == entries[n]
             front == SortNewestFirst_unstable(SubSeq(entries, 1, n - 1))
             notNewer == {j \in 1..Len(front) : ~LexLess(e.ts, front[j].ts)}
             p == IF notNewer = {} THEN Len(front) + 1
                  ELSE CHOOSE j \in notNewer : \A j2 \in notNewer : j <= j2
         IN SubSeq(front, 1, p - 1) \o <<e>> \o SubSeq(front, p, Len(front))

\* line 586: Array.prototype.sort with (a, b) => b.ts.localeCompare(a.ts);
\* the sort is stable
RECURSIVE SortNewestFirst(_)
SortNewestFirst(entries) ==
    IF Len(entries) <= 1 THEN entries
    ELSE LET n == Len(entries)
             e == entries[n]
             front == SortNewestFirst(SubSeq(entries, 1, n - 1))
             \* e goes behind every entry that is not older than it
             older == {j \in 1..Len(front) : LexLess(front[j].ts, e.ts)}
             p == IF older = {} THEN Len(front) + 1
                  ELSE CHOOSE j \in older : \A j2 \in older : j <= j2
         IN SubSeq(front, 1, p - 1) \o <<e>> \o SubSeq(front, p, Len(front))

\* (variant) when only the audit feed fails, the journal entries are returned
Activity_journalOnly(session, r, fate) ==
    LET using == pickActingCreds(session)
        cj == SnReq(using, "GET", "sys_journal_field", "", JournalQuery(r.sys_id), 500, "",
                    NoBody)
        ca == SnReq(adminCreds, "GET", "sys_audit", "", AuditQuery(r.sys_id), 500,
                    DisplayAll, NoBody)
        failed(cs) == Outcome(cs, Failed("Activity fetch failed"), sessions, nameCache)
        \* lines 586-594
        Merged(journal, audit) ==
            Outcome(<<cj, ca>> \o audit.calls,
                    Reply(200, TRUE, SortNewestFirst(journal \o audit.entries), ""),
                    sessions, audit.cache)
        \* lines 531-583
        Rows(jrows, arows) ==
            Merged([i \in 1..Len(jrows) |-> JournalEntry(jrows[i])],
                   AuditEntries(arows, 1, StateSeenAt(arows), nameCache, 3, fate))
        \* lines 522-529
        Audit(jf, au) ==
            IF ~au.ok THEN Rows(ResultOr(jf, << >>), << >>)
            ELSE Rows(ResultOr(jf, << >>), ResultOr(au, << >>))
        \* lines 516-521
        Journal(jf) ==
            IF ~jf.ok THEN failed(<<cj>>) ELSE Audit(jf, SnResult(ca, 2, fate))
    IN Journal(SnResult(cj, 1, fate))

\* GET /api/record/:table/:sys_id/activity, lines 510-599
Activity(session, r, fate) ==
    LET using == pickActingCreds(session)
        cj == SnReq(using, "GET", "sys_journal_field", "", JournalQuery(r.sys_id), 500, "",
                    NoBody)
        ca == SnReq(adminCreds, "GET", "sys_audit", "", AuditQuery(r.sys_id), 500,
                    DisplayAll, NoBody)
        failed(cs) == Outcome(cs, Failed("Activity fetch failed"), sessions, nameCache)
        \* lines 586-594
        Merged(journal, audit) ==
            Outcome(<<cj, ca>> \o audit.calls,
                    Reply(200, TRUE, SortNewestFirst(journal \o audit.entries), ""),
                    sessions, audit.cache)
        \* lines 531-583
        Rows(jrows, arows) ==
            Merged([i \in 1..Len(jrows) |-> JournalEntry(jrows[i])],
                   AuditEntries(arows, 1, StateSeenAt(arows), nameCache, 3, fate))
        \* lines 522-529
        Audit(jf, au) ==
            IF ~au.ok THEN failed(<<cj, ca>>)
            ELSE Rows(ResultOr(jf, << >>), ResultOr(au, << >>))
        \* lines 516-521
        Journal(jf) ==
            IF ~jf.ok THEN failed(<<cj>>) ELSE Audit(jf, SnResult(ca, 2, fate))
    IN Journal(SnResult(cj, 1, fate))

(***************************************************************************)
(* The page's caller of the proxy: api(path, options), api.js lines 4-30   *)
(***************************************************************************)
\* what Response.json() rejects for: no body, or a body that is not JSON
NotJson == [t |-> "invalid", v |-> "invalid"]

\* Response.ok
ResponseOk(response) == response.status \in 200..299

\* Response.statusText
StatusText(status) ==
    CASE status = 200 -> "OK"
      [] status = 201 -> "Created"
      [] status = 204 -> "No Content"
      [] status = 304 -> "Not Modified"
      [] status = 400 -> "Bad Request"
      [] status = 401 -> "Unauthorized"
      [] status = 403 -> "Forbidden"
      [] status = 404 -> "Not Found"
      [] status = 500 -> "Internal Server Error"
      [] OTHER -> "Bad Gateway"

\* JSON.stringify of an object whose properties are strings
RECURSIVE JsonProps(_, _)
JsonProps(x, k) ==
    IF k > Len(x.keys) THEN ""
    ELSE (IF k > 1 THEN "," ELSE "")
         \o "\"" \o x.keys[k] \o "\":\"" \o x.v[x.keys[k]].v \o "\""
         \o JsonProps(x, k + 1)

JsonStringify(x) == "{" \o JsonProps(x, 1) \o "}"

\* lines 20 and 29: data.result !== undefined ? data.result : data
ResultOrData(data) ==
    IF Get(data, "result").t # "undefined" THEN Get(data, "result") ELSE data

\* lines 19 and 24: the parsed body, {} when there is none
ParsedOrEmpty(response) ==
    IF response.json = NotJson THEN JsObj(<< >>, << >>) ELSE response.json

\* line 26: data?.error?.message || data?.error || res.statusText
ErrorMsg(response, data) ==
    IF ~Falsy(Get(Get(data, "error"), "message")) THEN Get(Get(data, "error"), "message")
    ELSE IF ~Falsy(Get(data, "error")) THEN Get(data, "error")
    ELSE JsStr(StatusText(response.status))

Returns(value) == [threw |-> FALSE, value |-> value]

Throws(message) == [threw |-> TRUE, message |-> message]

\* lines 17-29, from the response fetch delivered
api(response) ==
    LET data == ParsedOrEmpty(response)
        OkFalse == Get(data, "ok").t = "boolean" /\ Get(data, "ok").v = FALSE
        Raise(msg) == Throws(IF msg.t = "string" THEN msg.v ELSE JsonStringify(msg))
    IN IF response.status = 304 THEN Returns(ResultOrData(data))
       ELSE IF ~ResponseOk(response) \/ OkFalse THEN Raise(ErrorMsg(response, data))
       ELSE Returns(ResultOrData(data))
(***************************************************************************)
(* Part II.  Routing, and the requests the model sends                     *)
(***************************************************************************)

\* the routes of the app, lines 59-705
GuardedRoutes ==
    {"GET /api/debug/session", "GET /api/incidents", "GET /api/tasks",
     "GET /api/approvals", "GET /api/approval/:sys_id",
     "POST /api/approval/:sys_id/decide", "GET /api/record/:table/:sys_id",
     "GET /api/change/:sys_id/details", "GET /api/record/:table/:sys_id/work_notes/all",
     "GET /api/record/:table/:sys_id/activity", "GET /api/search/users",
     "GET /api/search/groups", "PATCH /api/record/:table/:sys_id"}

\* requireAuth, lines 168-182: it answers 401 itself, or sets req.session and
\* lets the handler run; `handled` is what the handler then leaves behind
requireAuth(r, handled) ==
    IF SessionOf(r) = Undefined
    THEN Outcome(<< >>, NotAuthenticated, sessions, nameCache)
    ELSE handled

\* ---- bounds ----
\* the sessions the store holds at most
MaxSessions == 2

\* the calls of a request whose fate is chosen; later calls get the
\* upstream's answer
MaxFated == 3

Min(a, b) == IF a <= b THEN a ELSE b

\* the fates of the first n calls of a request
Fates(n) == [1..Min(n, MaxFated) -> CallFates]

IssuedTokens == DOMAIN sessions

\* a token the store never issued
ForgedToken == "f00d"

Bearer(t) == [authorization |-> [scheme |-> "Bearer", cred |-> t], queryToken |-> ""]

QueryToken(t) == [authorization |-> NoAuthorization, queryToken |-> t]

\* how a request presents an issued token so that requireAuth finds it
Presentations == {Bearer(t) : t \in IssuedTokens}

LinkPresentations == {QueryToken(t) : t \in IssuedTokens}

\* the other ways a request arrives: no token, an empty one, one never
\* issued, an issued one under another scheme, and an empty Bearer token
\* beside an issued ?token=
OtherPresentations ==
    {Bearer(ForgedToken), Bearer(""), QueryToken(ForgedToken), QueryToken("")}
    \cup {[authorization |-> [scheme |-> "Basic", cred |-> t], queryToken |-> ""] :
            t \in IssuedTokens}
    \cup {[authorization |-> [scheme |-> "Bearer", cred |-> ""], queryToken |-> t] :
            t \in IssuedTokens}

LoginInputs ==
    {[username |-> "", password |-> "pwA"], [username |-> "alice", password |-> ""],
     [username |-> "alice", password |-> "pwA"], [username |-> "alice", password |-> "pwB"],
     [username |-> "bob", password |-> "pwB"], [username |-> "carl", password |-> "pwC"]}

RecordTables == {"incident", " "}

RecordIds == {"i1", "i2"}

ApprovalIds == {"a1", "a2"}

SearchTerms == {"", "ali", "D"}

Decisions == {[decision |-> "approve", comments |-> ""],
              [decision |-> "reject", comments |-> "no budget"],
              [decision |-> "maybe", comments |-> ""],
              [decision |-> "constructor", comments |-> ""]}

UpdateBodies ==
    {[state |-> JsStr("2"), work_notes |-> JsStr("checking now")],
     [assigned_to |-> JsStr("bob"), comments |-> JsStr(" ")],
     [assignment_group |-> JsStr("g2"), priority |-> JsStr("")],
     [assigned_to |-> JsStr("")],
     << >>}

NoParams == [table |-> "", sys_id |-> "", q |-> "", body |-> NoBody]

Request(route, p, params) ==
    [route |-> route, authorization |-> p.authorization, queryToken |-> p.queryToken,
     table |-> params.table, sys_id |-> params.sys_id, q |-> params.q,
     body |-> params.body]

NoRequest == Request("", QueryToken(""), NoParams)

NoReply == Reply(0, FALSE, NoResult, "")

\* no request is being served
Idle == req = NoRequest

\* the process takes request r and its middleware chain runs to the
\* response, leaving o behind; fate is the fate of its calls
Serve(r, fate, o) ==
    /\ req' = r
    /\ calls' = o.calls
    /\ callOk' = [k \in 1..Len(o.calls) |-> SnResult(o.calls[k], k, fate).ok]
    /\ res' = o.res
    /\ sessions' = o.sessions
    /\ nameCache' = o.nameCache
    /\ UNCHANGED <<USE_ADMIN_FOR_ALL, now>>
    /\ UNCHANGED snVars
    /\ UNCHANGED fnVars

\* a request that leaves the browser's storage alone
Handle(r, fate, o) == Serve(r, fate, o) /\ UNCHANGED localStorage

\* the response is sent and the request is over
Finish ==
    /\ req # NoRequest
    /\ req' = NoRequest
    /\ calls' = << >>
    /\ callOk' = << >>
    /\ res' = NoReply
    /\ UNCHANGED <<USE_ADMIN_FOR_ALL, sessions, nameCache, now, localStorage>>
    /\ UNCHANGED snVars
    /\ UNCHANGED fnVars

\* the token of a new session: random bytes, so one never issued before
FreshToken == TokenPool[Cardinality(DOMAIN sessions) + 1]

\* the parameters a request to each guarded route is sent with
ParamsOf(route) ==
    CASE route = "GET /api/record/:table/:sys_id" ->
            {[NoParams EXCEPT !.table = t, !.sys_id = id] :
                t \in RecordTables, id \in RecordIds}
      [] route \in {"GET /api/change/:sys_id/details",
                    "GET /api/record/:table/:sys_id/work_notes/all",
                    "GET /api/record/:table/:sys_id/activity"} ->
            {[NoParams EXCEPT !.table = "incident", !.sys_id = id] : id \in RecordIds}
      [] route \in {"GET /api/search/users", "GET /api/search/groups"} ->
            {[NoParams EXCEPT !.q = q] : q \in SearchTerms}
      [] route = "GET /api/approval/:sys_id" ->
            {[NoParams EXCEPT !.sys_id = id] : id \in ApprovalIds}
      [] route = "POST /api/approval/:sys_id/decide" ->
            {[NoParams EXCEPT !.sys_id = id, !.body = b] :
                id \in ApprovalIds, b \in Decisions}
      [] route = "PATCH /api/record/:table/:sys_id" ->
            {[NoParams EXCEPT !.table = "incident", !.sys_id = "i2", !.body = b] :
                b \in UpdateBodies}
      [] OTHER -> {NoParams}

\* the calls whose fate is chosen for a request to each route
FatedCalls(route) ==
    CASE route \in {"GET /api/incidents", "GET /api/tasks", "GET /api/approvals"} -> 2
      [] route = "GET /api/record/:table/:sys_id/activity" -> 2
      [] route \in {"GET /api/approval/:sys_id", "PATCH /api/record/:table/:sys_id",
                    "POST /api/login"} -> 3
      [] OTHER -> 1

\* the first parameters of a route
DefaultParams(route) ==
    CASE route \in {"GET /api/search/users", "GET /api/search/groups"} ->
            [NoParams EXCEPT !.q = "ali"]
      [] route \in {"GET /api/approval/:sys_id", "POST /api/approval/:sys_id/decide"} ->
            [NoParams EXCEPT !.sys_id = "a1", !.body = [decision |-> "approve", comments |-> ""]]
      [] route = "PATCH /api/record/:table/:sys_id" ->
            [NoParams EXCEPT !.table = "incident", !.sys_id = "i2",
                             !.body = [state |-> JsStr("2"), work_notes |-> JsStr("checking now")]]
      [] route = "GET /api/debug/session" -> NoParams
      [] OTHER -> [NoParams EXCEPT !.table = "incident", !.sys_id = "i2"]

\* no call is fated: each gets the upstream's answer
NoFate == << >>

\* the requests the model sends to a guarded route, each with the fates of
\* its calls
Asks(route) ==
    {[r |-> Request(route, p, params), fate |-> fate] :
        p \in Presentations, params \in ParamsOf(route),
        fate \in Fates(FatedCalls(route))}
    \cup {[r |-> Request(route, p, DefaultParams(route)), fate |-> NoFate] :
            p \in LinkPresentations \cup OtherPresentations}

LoginRequest(b) == Request("POST /api/login", QueryToken(""), [NoParams EXCEPT !.body = b])

\* POST /api/login; the store of the model takes MaxSessions sessions
DoLogin ==
    /\ Idle
    /\ \E b \in LoginInputs, fate \in Fates(FatedCalls("POST /api/login")) :
           /\ Cardinality(DOMAIN Login(LoginRequest(b), fate, FreshToken).sessions)
                   <= MaxSessions
           /\ Handle(LoginRequest(b), fate, Login(LoginRequest(b), fate, FreshToken))

\* GET /healthz, line 59
DoHealthz ==
    /\ Idle
    /\ \E p \in Presentations \cup OtherPresentations :
           Handle(Request("GET /healthz", p, NoParams), NoFate,
                  Outcome(<< >>, Reply(200, TRUE, NoResult, ""), sessions, nameCache))

DoDebugSession ==
    /\ Idle
    /\ \E a \in Asks("GET /api/debug/session") :
           Handle(a.r, a.fate, requireAuth(a.r, DebugSession(SessionOf(a.r), a.r, a.fate)))

DoIncidents ==
    /\ Idle
    /\ \E a \in Asks("GET /api/incidents") :
           Handle(a.r, a.fate, requireAuth(a.r, Incidents(SessionOf(a.r), a.r, a.fate)))

DoTasks ==
    /\ Idle
    /\ \E a \in Asks("GET /api/tasks") :
           Handle(a.r, a.fate, requireAuth(a.r, Tasks(SessionOf(a.r), a.r, a.fate)))

DoApprovals ==
    /\ Idle
    /\ \E a \in Asks("GET /api/approvals") :
           Handle(a.r, a.fate, requireAuth(a.r, Approvals(SessionOf(a.r), a.r, a.fate)))

DoApprovalDetails ==
    /\ Idle
    /\ \E a \in Asks("GET /api/approval/:sys_id") :
           Handle(a.r, a.fate, requireAuth(a.r, ApprovalDetails(SessionOf(a.r), a.r, a.fate)))

DoApprovalDecide ==
    /\ Idle
    /\ \E a \in Asks("POST /api/approval/:sys_id/decide") :
           Handle(a.r, a.fate, requireAuth(a.r, ApprovalDecide(SessionOf(a.r), a.r, a.fate)))

DoGetRecord ==
    /\ Idle
    /\ \E a \in Asks("GET /api/record/:table/:sys_id") :
           Handle(a.r, a.fate, requireAuth(a.r, GetRecord(SessionOf(a.r), a.r, a.fate)))

DoChangeDetails ==
    /\ Idle
    /\ \E a \in Asks("GET /api/change/:sys_id/details") :
           Handle(a.r, a.fate, requireAuth(a.r, ChangeDetails(SessionOf(a.r), a.r, a.fate)))

DoWorkNotesAll ==
    /\ Idle
    /\ \E a \in Asks("GET /api/record/:table/:sys_id/work_notes/all") :
           Handle(a.r, a.fate, requireAuth(a.r, WorkNotesAll(SessionOf(a.r), a.r, a.fate)))

\* the fates of an activity request whose two feeds are answered and whose
\* name lookups throw: all of them, however many it makes, or the first
LookupFates ==
    {[k \in 1..8 |-> IF k <= 2 THEN "answer" ELSE "raise"],
     <<"answer", "answer", "raise">>}

LookupAsks(route) ==
    {[r |-> Request(route, p, params), fate |-> fate] :
        p \in Presentations, params \in ParamsOf(route), fate \in LookupFates}

DoActivity ==
    /\ Idle
    /\ \E a \in Asks("GET /api/record/:table/:sys_id/activity")
                \cup LookupAsks("GET /api/record/:table/:sys_id/activity") :
           Handle(a.r, a.fate, requireAuth(a.r, Activity(SessionOf(a.r), a.r, a.fate)))

DoSearchUsers ==
    /\ Idle
    /\ \E a \in Asks("GET /api/search/users") :
           Handle(a.r, a.fate, requireAuth(a.r, SearchUsers(SessionOf(a.r), a.r, a.fate)))

DoSearchGroups ==
    /\ Idle
    /\ \E a \in Asks("GET /api/search/groups") :
           Handle(a.r, a.fate, requireAuth(a.r, SearchGroups(SessionOf(a.r), a.r, a.fate)))

DoUpdateRecord ==
    /\ Idle
    /\ \E a \in Asks("PATCH /api/record/:table/:sys_id") :
           Handle(a.r, a.fate, requireAuth(a.r, UpdateRecord(SessionOf(a.r), a.r, a.fate)))

\* ---- the browser, src/frontend/src/App.jsx ----
\* localStorage.removeItem
RemoveItem(store, key) == [x \in DOMAIN store \ {key} |-> store[x]]

\* useState(() => localStorage.getItem("token") || ""), lines 1042-1044
StoredToken == IF "token" \in DOMAIN localStorage THEN localStorage["token"] ELSE ""

\* onSuccess of the login form, lines 1215-1220, reached from doLogin
\* (lines 899-912) when api() did not throw (api.js lines 24-29)
onSuccess(reply) ==
    IF reply.status = 200 /\ reply.ok
    THEN MapSet(MapSet(localStorage, "token", reply.result.token), "user", reply.result.user)
    ELSE localStorage

\* the login form is submitted; it is shown while the page holds no token
\* (line 1203)
SubmitLogin ==
    /\ Idle
    /\ StoredToken = ""
    /\ \E b \in LoginInputs, fate \in Fates(FatedCalls("POST /api/login")) :
           /\ Cardinality(DOMAIN Login(LoginRequest(b), fate, FreshToken).sessions)
                   <= MaxSessions
           /\ Serve(LoginRequest(b), fate, Login(LoginRequest(b), fate, FreshToken))
           /\ localStorage' = onSuccess(Login(LoginRequest(b), fate, FreshToken).res)

\* (variant) a logout that also deletes the page's session on the server
doLogout_serverSide ==
    /\ Idle
    /\ StoredToken # ""
    /\ localStorage' = RemoveItem(RemoveItem(localStorage, "token"), "user")
    /\ sessions' = RemoveItem(sessions, StoredToken)
    /\ UNCHANGED <<USE_ADMIN_FOR_ALL, nameCache, now, req, calls, callOk, res>>
    /\ UNCHANGED snVars
    /\ UNCHANGED fnVars

\* doLogout, lines 1173-1185: it sends nothing to the server
doLogout ==
    /\ Idle
    /\ StoredToken # ""
    /\ localStorage' = RemoveItem(RemoveItem(localStorage, "token"), "user")
    /\ UNCHANGED <<USE_ADMIN_FOR_ALL, sessions, nameCache, now, req, calls, callOk, res>>
    /\ UNCHANGED snVars
    /\ UNCHANGED fnVars

\* the handler registered for each guarded route, lines 317-705
RouteHandler(route, session, r, fate) ==
    CASE route = "GET /api/debug/session" -> DebugSession(session, r, fate)
      [] route = "GET /api/incidents" -> Incidents(session, r, fate)
      [] route = "GET /api/tasks" -> Tasks(session, r, fate)
      [] route = "GET /api/approvals" -> Approvals(session, r, fate)
      [] route = "GET /api/approval/:sys_id" -> ApprovalDetails(session, r, fate)
      [] route = "POST /api/approval/:sys_id/decide" -> ApprovalDecide(session, r, fate)
      [] route = "GET /api/record/:table/:sys_id" -> GetRecord(session, r, fate)
      [] route = "GET /api/change/:sys_id/details" -> ChangeDetails(session, r, fate)
      [] route = "GET /api/record/:table/:sys_id/work_notes/all" ->
            WorkNotesAll(session, r, fate)
      [] route = "GET /api/record/:table/:sys_id/activity" -> Activity(session, r, fate)
      [] route = "GET /api/search/users" -> SearchUsers(session, r, fate)
      [] route = "GET /api/search/groups" -> SearchGroups(session, r, fate)
      [] route = "PATCH /api/record/:table/:sys_id" -> UpdateRecord(session, r, fate)

\* a request to a guarded route as api() sends it (api.js line 7), carrying
\* a token the store issued: the page's own, or a copy kept elsewhere
WithToken(route, t) == Request(route, Bearer(t), DefaultParams(route))

SendWithToken ==
    /\ Idle
    /\ \E route \in GuardedRoutes, t \in IssuedTokens :
           Handle(WithToken(route, t), NoFate,
                  requireAuth(WithToken(route, t),
                              RouteHandler(route, SessionOf(WithToken(route, t)),
                                           WithToken(route, t), NoFate)))

\* ---- helpers applied on their own ----
NotApplied == [fn |-> ""]

NothingReturned == [none |-> TRUE]

\* the credentials a helper is handed: the privileged one, a user's own,
\* and one the upstream rejects
HelperCreds == {adminCreds, [username |-> "alice", password |-> "pwA"],
                [username |-> "bob", password |-> "stale"]}

\* the values handed to resolveRef: identifiers, names and fragments of
\* names, with and without surrounding blanks, bare and wrapped
RefInputs ==
    {JsStr(str) : str \in {"ua", "ub", "g1", "g2", "i1", "bob", "alice", "ali", "Alice A",
                           "bob@x", "Network", "D", "Net", "nobody", " ua ", " ", ""}}
    \cup {JsNull, JsUndefined, Displayed("Bob B", "ub"), Displayed("Database", "Database"),
          Reference("g3"), JsObj(<<"name">>, [name |-> JsStr("bob")]),
          JsObj(<<"value">>, [value |-> JsStr("nobody")])}

\* resolveRef is applied to one input, with the fate of its call
ApplyResolveRef ==
    \E using \in HelperCreds, forceTable \in {"sys_user", "sys_user_group"},
       displayOrId \in RefInputs, fate \in Fates(1) :
        /\ applied' = [fn |-> "resolveRef", using |-> using, forceTable |-> forceTable,
                       displayOrId |-> displayOrId, fate |-> fate]
        /\ returned' = resolveRef(using, forceTable, displayOrId, 1, fate)
        /\ UNCHANGED <<USE_ADMIN_FOR_ALL, sessions, nameCache, now, req, calls, callOk, res,
                       localStorage, inFlight>>
        /\ UNCHANGED snVars

\* ---- the page's caller ----
JsBool(b) == [t |-> "boolean", v |-> b]

\* the statuses a response carries
ResponseStatuses == {200, 201, 204, 304, 400, 401, 403, 404, 500, 502}

\* the bodies a response carries: none, and envelopes with and without ok,
\* result and error
Envelopes ==
    {NotJson,
     JsObj(<< >>, << >>),
     JsObj(<<"ok", "result">>, [ok |-> JsBool(TRUE), result |-> JsStr("rows")]),
     JsObj(<<"ok", "result">>, [ok |-> JsBool(TRUE), result |-> JsNull]),
     JsObj(<<"ok">>, [ok |-> JsBool(TRUE)]),
     JsObj(<<"result">>, [result |-> JsStr("rows")]),
     JsObj(<<"ok">>, [ok |-> JsBool(FALSE)]),
     JsObj(<<"ok", "result">>, [ok |-> JsBool(FALSE), result |-> JsStr("rows")]),
     JsObj(<<"ok", "error", "status">>,
           [ok |-> JsBool(FALSE),
            error |-> JsObj(<<"message", "detail">>,
                            [message |-> JsStr("Update failed"),
                             detail |-> JsStr("upstream failure")]),
            status |-> JsStr("failure")]),
     JsObj(<<"ok", "error">>, [ok |-> JsBool(FALSE), error |-> JsStr("Unauthorized")]),
     JsObj(<<"ok", "error">>,
           [ok |-> JsBool(FALSE),
            error |-> JsObj(<<"detail">>, [detail |-> JsStr("no message")])]),
     JsObj(<<"error">>, [error |-> JsStr("Unauthorized")])}

\* api receives one response
ApplyApi ==
    \E status \in ResponseStatuses, json \in Envelopes :
        /\ applied' = [fn |-> "api", response |-> [status |-> status, json |-> json]]
        /\ returned' = api([status |-> status, json |-> json])
        /\ UNCHANGED <<USE_ADMIN_FOR_ALL, sessions, nameCache, now, req, calls, callOk, res,
                       localStorage, inFlight>>
        /\ UNCHANGED snVars

\* ---- audit values ----
JsNum(n) == [t |-> "number", v |-> n]

\* the values an audit row carries as oldvalue or newvalue: scalars, nothing,
\* and the shapes the upstream wraps a value in
AuditValues ==
    {JsStr(str) : str \in {"", " ", "2", "ua", " ua ", "Network", "looking"}}
    \cup {JsNum(n) : n \in {0, 1, 7}}
    \cup {JsBool(b) : b \in BOOLEAN}
    \cup {JsNull, JsUndefined, Displayed("Bob B", "ub"), Displayed("", ""),
          Reference("g3"), JsObj(<<"name">>, [name |-> JsStr("bob")]),
          JsObj(<<"user_name">>, [user_name |-> JsStr("alice")]),
          JsObj(<<"label">>, [label |-> JsNum(3)]),
          JsObj(<<"a", "b">>, [a |-> JsStr("x"), b |-> JsStr("y")]),
          JsObj(<<"display_value", "value">>,
                [display_value |-> JsNull, value |-> JsStr("ub")]),
          JsObj(<<"value", "name">>, [value |-> JsStr("g1"), name |-> JsStr("Network")]),
          JsObj(<<"user_name", "name">>,
                [user_name |-> JsStr("alice"), name |-> JsStr("Alice A")]),
          JsObj(<<"email", "user_name">>,
                [email |-> JsStr("bob@x"), user_name |-> JsStr("bob")]),
          JsObj(<<"display_value">>,
                [display_value |->
                    JsObj(<<"link", "value">>,
                          [link |-> JsStr("/sys_user/ub"),
                           value |-> JsObj(<<"name">>, [name |-> JsStr(" ua ")])])]),
          JsObj(<< >>, << >>)}

\* an audit row's old and new value are unwrapped and rendered (lines
\* 563-566)
ApplyUnwrapAuditVal ==
    \E oldvalue \in AuditValues, newvalue \in AuditValues :
        /\ applied' = [fn |-> "unwrapAuditVal", oldvalue |-> oldvalue,
                       newvalue |-> newvalue]
        /\ returned' = [rawOld |-> unwrapAuditVal(oldvalue),
                        rawNew |-> unwrapAuditVal(newvalue),
                        oldVal |-> Rendered(unwrapAuditVal(oldvalue)),
                        newVal |-> Rendered(unwrapAuditVal(newvalue))]
        /\ UNCHANGED <<USE_ADMIN_FOR_ALL, sessions, nameCache, now, req, calls, callOk, res,
                       localStorage, inFlight>>
        /\ UNCHANGED snVars

\* ---- the clock and the Display-Name Cache ----
\* the ticks the clock of the model makes at most
MaxTicks == 3

\* one tick of the clock: half the lifetime of a cache entry, so that an
\* entry is read before, at and after the instant it expires
TickMs == NAME_TTL_MS \div 2

\* Date.now() advances
Tick ==
    /\ now < MaxTicks * TickMs
    /\ now' = now + TickMs
    /\ UNCHANGED <<USE_ADMIN_FOR_ALL, sessions, nameCache, req, calls, callOk, res,
                   localStorage>>
    /\ UNCHANGED snVars
    /\ UNCHANGED fnVars

\* the records whose name is asked for: a user, a group, and no record
NameInputs ==
    {<<"sys_user", JsStr("ua")>>, <<"sys_user_group", JsStr("g1")>>,
     <<"sys_user", JsStr("")>>, <<"sys_user_group", JsNull>>}

\* _resolveDisplayName is applied to one record, with the fate of its call;
\* `hit` and `now` are the entry and the clock as it found them
ApplyResolveName ==
    \E using \in {adminCreds, [username |-> "bob", password |-> "stale"]},
       n \in NameInputs, fate \in Fates(1) :
        /\ applied' = [fn |-> "_resolveDisplayName", using |-> using, table |-> n[1],
                       sys_id |-> n[2], fate |-> fate, now |-> now,
                       hit |-> MapGet(nameCache, <<n[1], n[2].v>>)]
        /\ returned' = [name |-> _resolveDisplayName(using, n[1], n[2], nameCache, 1,
                                                     fate).name,
                        calls |-> _resolveDisplayName(using, n[1], n[2], nameCache, 1,
                                                      fate).calls]
        /\ nameCache' = _resolveDisplayName(using, n[1], n[2], nameCache, 1, fate).cache
        /\ UNCHANGED <<USE_ADMIN_FOR_ALL, sessions, now, req, calls, callOk, res,
                       localStorage, inFlight>>
        /\ UNCHANGED snVars

\* ---- _resolveDisplayName calls that overlap ----
\* the calls that may await their fetch at the same time
MaxInFlight == 2

\* the records whose names overlapping calls ask for: two keys, and no record
ConcInputs ==
    {<<"sys_user", JsStr("ua")>>, <<"sys_user_group", JsStr("g1")>>, <<"sys_user", JsNull>>}

\* one call runs from its entry to its await (lines 251-260), or to its
\* return when it has nothing to fetch; `now` is the clock it read on line 254
StartResolveName ==
    /\ BagCardinality(inFlight) < MaxInFlight
    /\ \E n \in ConcInputs :
        /\ applied' = [fn |-> "start", key |-> <<n[1], n[2].v>>, now |-> now]
        /\ IF StartsFetch(n[1], n[2], nameCache, now)
           THEN /\ inFlight' = inFlight (+) SetToBag({[key |-> <<n[1], n[2].v>>,
                                                         table |-> n[1], sys_id |-> n[2],
                                                         now |-> now]})
                /\ returned' = NothingReturned
           ELSE /\ inFlight' = inFlight
                /\ returned' = [name |-> IF Falsy(n[2]) THEN JsStr(Dash)
                                         ELSE MapGet(nameCache, <<n[1], n[2].v>>).name]
        /\ UNCHANGED <<USE_ADMIN_FOR_ALL, sessions, nameCache, now, req, calls, callOk, res,
                       localStorage>>
        /\ UNCHANGED snVars

\* the fetch of one awaiting call settles and the call runs to its return
\* (lines 261-266): it stores the label with the clock it read at its start,
\* or, when the fetch threw, stores nothing
CompleteResolveName ==
    \E p \in BagToSet(inFlight), fate \in Fates(1) :
        LET d == SnResult(SnReq(adminCreds, "GET", p.table, p.sys_id.v, << >>, 1, DisplayAll,
                                NoBody),
                          1, fate)
        IN /\ applied' = [fn |-> "complete", key |-> p.key, now |-> p.now, ok |-> d.ok]
           /\ returned' = [name |-> IF d.ok THEN FetchedLabel(d, p.sys_id) ELSE p.sys_id]
           /\ nameCache' = IF d.ok
                           THEN MapSet(nameCache, p.key,
                                       CacheEntry(FetchedLabel(d, p.sys_id), p.now))
                           ELSE nameCache
           /\ inFlight' = inFlight (-) SetToBag({p})
           /\ UNCHANGED <<USE_ADMIN_FOR_ALL, sessions, now, req, calls, callOk, res,
                          localStorage>>
           /\ UNCHANGED snVars

SnIdle ==
    /\ retries = DefaultRetries
    /\ returnRaw = FALSE
    /\ attempt = 0
    /\ lastErr = NoErr
    /\ snPc = "idle"
    /\ snHist = << >>
    /\ snDelays = << >>
    /\ snOut = [kind |-> "none", err |-> NoErr]
    /\ snWrites = 0

\* the process after line 710: both maps empty
AppStarted ==
    /\ sessions = << >>
    /\ nameCache = << >>
    /\ now = 0
    /\ req = NoRequest
    /\ calls = << >>
    /\ callOk = << >>
    /\ res = NoReply
    /\ localStorage = << >>
    /\ applied = NotApplied
    /\ returned = NothingReturned
    /\ inFlight = EmptyBag

(***************************************************************************)
(* Specifications                                                          *)
(***************************************************************************)
SnInit == SnIdle /\ AppStarted /\ USE_ADMIN_FOR_ALL = "true"

SnNext ==
    \/ \E r \in 0..MaxRetries, raw \in BOOLEAN : SnCall(r, raw)
    \/ \E o \in FetchOutcomes : SnAttempt(o)

SpecSn == SnInit /\ [][SnNext]_vars

\* Spec: the process serves one request after another; its clock stands
\* still.
Init == SnIdle /\ AppStarted /\ USE_ADMIN_FOR_ALL \in EnvFlagValues

Next ==
    \/ DoLogin
    \/ DoHealthz
    \/ DoDebugSession
    \/ DoIncidents
    \/ DoTasks
    \/ DoApprovals
    \/ DoApprovalDetails
    \/ DoApprovalDecide
    \/ DoGetRecord
    \/ DoChangeDetails
    \/ DoWorkNotesAll
    \/ DoActivity
    \/ DoSearchUsers
    \/ DoSearchGroups
    \/ DoUpdateRecord
    \/ Finish

Spec == Init /\ [][Next]_vars

\* SpecClient: the page logs in and out while requests carrying issued
\* tokens keep arriving, from this page or from any holder of a token.
ClientNext ==
    \/ SubmitLogin
    \/ doLogout
    \/ SendWithToken
    \/ Finish

SpecClient == Init /\ [][ClientNext]_vars

\* SpecRef: resolveRef applied to one input after another
RefNext == ApplyResolveRef

SpecRef == Init /\ [][RefNext]_vars

\* SpecCache: the clock runs while names are asked for
CacheNext == Tick \/ ApplyResolveName

SpecCache == Init /\ [][CacheNext]_vars

\* SpecApi: the page's caller receives one response after another
ApiNext == ApplyApi

SpecApi == Init /\ [][ApiNext]_vars

\* SpecUnwrap: audit values are unwrapped one pair after another
UnwrapNext == ApplyUnwrapAuditVal

SpecUnwrap == Init /\ [][UnwrapNext]_vars

\* SpecConc: _resolveDisplayName calls start, await their fetch and finish in
\* any order while the clock runs
ConcNext == Tick \/ StartResolveName \/ CompleteResolveName

SpecConc == Init /\ [][ConcNext]_vars
(***************************************************************************)
(* Properties of sn(...), checked under SpecSn                             *)
(***************************************************************************)
SnDone == snPc \in {"returned", "raised"}

LastFetch == snHist[Len(snHist)]

Is4xx(o) == o.fetch = "ok" /\ o.status >= 400 /\ o.status <= 499

Is5xx(o) == o.fetch = "ok" /\ o.status >= 500

\* an attempt that ended in a 5xx response, a timeout abort or a
\* network-level failure
IsTransient(o) == o.fetch \in {"network", "timeout"} \/ Is5xx(o) \/ o.body = "abort"

\* C1: an attempt answered with an HTTP 4xx status is the last attempt of
\* its call, and the call raises right after it.
C1_ClientErrorNeverRetried ==
    ~returnRaw =>
        \A i \in 1..Len(snHist) :
            Is4xx(snHist[i]) => i = Len(snHist) /\ snPc = "raised"

\* C2: a call issues at most retries + 1 fetches whatever the outcomes are;
\* every retry, from the 5xx branch or from the catch block, uses one unit of
\* the one budget `attempt`; a call still looping has budget for its next
\* fetch, and a call that raised has used the whole budget.
C2_AttemptBudget ==
    /\ Len(snHist) <= retries + 1
    /\ attempt <= retries
    /\ snPc = "loop" => Len(snHist) = attempt
    /\ Len(snDelays) = attempt
    /\ snPc = "raised" => Len(snHist) = retries + 1 /\ attempt = retries
    /\ SnDone => snOut.kind # "none"

\* C2 witness: a call with budget 2 raised after a 5xx response, a timeout
\* and a network failure, each in its own attempt.
C2_Witness ==
    /\ snPc = "raised"
    /\ retries = 2
    /\ Len(snHist) = 3
    /\ \E i, j, k \in 1..3 :
        /\ Is5xx(snHist[i])
        /\ snHist[j].fetch = "timeout"
        /\ snHist[k].fetch = "network"

\* C3: an attempt that ends in a 5xx response, a timeout abort or a network
\* failure while budget remains is followed by another attempt; the call
\* raises for such a failure only with the budget used up, and then raises
\* the error of its last attempt.
C3_TransientAlwaysRetried ==
    ~returnRaw =>
        /\ \A i \in 1..Len(snHist) :
            IsTransient(snHist[i]) /\ i <= retries =>
                i < Len(snHist) \/ snPc = "loop"
        /\ (snPc = "raised" /\ IsTransient(LastFetch)) =>
                /\ Len(snHist) = retries + 1
                /\ snOut.err.at = Len(snHist)

\* C4: a call returns a body only when its final attempt has a success
\* status and no failure marker, and a call that received a success-status
\* response carrying a failure marker does not return a body: it fails.
C4_MarkedResponseFailsCall ==
    ~returnRaw =>
        /\ snPc = "returned" => ResOk(LastFetch) /\ ~HasFailureMarker(LastFetch)
        /\ (\E i \in 1..Len(snHist) : ResOk(snHist[i]) /\ HasFailureMarker(snHist[i]))
                => snPc # "returned"

(***************************************************************************)
(* Part II.  Properties of the Session Store, requireAuth and login        *)
(***************************************************************************)
IsLogin(r) == r.route = "POST /api/login"

IsGuarded(r) == r.route \in GuardedRoutes

\* the session token a request carries: the Bearer credential, else ?token=
CarriedToken(r) ==
    IF r.authorization.scheme = "Bearer" THEN r.authorization.cred ELSE r.queryToken

\* the request's token is missing or is not a key of the store ss
Unauthenticated(r, ss) == CarriedToken(r) = "" \/ CarriedToken(r) \notin DOMAIN ss

\* C5: a request to a guarded endpoint whose session token is missing or is
\* not a key of the Session Store is answered 401 "User Not Authenticated",
\* makes no upstream call, and leaves the Session Store and the Display-Name
\* Cache as they were.
C5_UnauthenticatedRejected ==
    [][(req' # NoRequest /\ IsGuarded(req') /\ Unauthenticated(req', sessions))
          => /\ res' = NotAuthenticated
             /\ calls' = << >>
             /\ sessions' = sessions
             /\ nameCache' = nameCache]_vars

\* C5 (witness): with a session and a cached name in the maps, an update
\* that carries an issued token under the Basic scheme has been answered 401
C5_Witness ==
    /\ req.route = "PATCH /api/record/:table/:sys_id"
    /\ req.authorization.scheme = "Basic"
    /\ req.authorization.cred \in DOMAIN sessions
    /\ res.status = 401
    /\ DOMAIN nameCache # {}

\* ---- C6 ----
WorkItemTables == TaskTables \cup {"sysapproval_approver"}

\* the groups of a session: those stored at login and those the upstream
\* holds for its identity
GroupsFor(session) ==
    SeqToSet(session.groups)
        \cup {sys_user_grmember[i].group :
                i \in {j \in 1..Len(sys_user_grmember) :
                        sys_user_grmember[j].user = session.userSysId}}

\* assigned to me / to one of my groups / unassigned
InScope(session, row) ==
    IF "approver" \in DOMAIN row
    THEN row.approver \in {session.userSysId, ""} \cup GroupsFor(session)
    ELSE \/ row.assigned_to = session.userSysId
         \/ row.assignment_group \in GroupsFor(session)
         \/ row.assigned_to = "" /\ row.assignment_group = ""

\* the work items an upstream call reads or writes
ItemsOf(c) ==
    IF c.table \notin WorkItemTables THEN {}
    ELSE IF c.sys_id # ""
    THEN {row \in SeqToSet(TableRows(c.table)) : row.sys_id = c.sys_id}
    ELSE {row \in SeqToSet(TableRows(c.table)) : QueryMatches(row, c.query)}

\* C6: with the privileged credential in use, every work item that an
\* upstream call of a session's request reads or writes is assigned to the
\* session's identity, to one of its groups, or to nobody.
C6_EveryAccessScoped ==
    (AdminForAll /\ IsGuarded(req) /\ ~Unauthenticated(req, sessions))
        => \A i \in 1..Len(calls) :
            \A row \in ItemsOf(calls[i]) : InScope(sessions[CarriedToken(req)], row)

\* ---- C7 ----
\* the active upstream identities a login with body b can be answered with
ActiveIdentities(b) ==
    {sys_user[i].sys_id :
        i \in {j \in 1..Len(sys_user) :
                /\ sys_user[j].user_name = b.username
                /\ sys_user[j].active = "true"
                /\ sys_user[j].sys_id # ""}}

\* C7: the Session Store changes only by a login that succeeded, whose
\* identity lookup returned an active identity with an identifier: that
\* login adds one session, for that identity, under the token it returns.
\* A login that fails leaves the store as it was and returns no token.
C7_SessionOnlyBySuccessfulLogin ==
    [][/\ sessions' # sessions
          => /\ IsLogin(req') /\ res'.ok /\ res'.status = 200
             /\ Len(calls') >= 1 /\ callOk'[1]
             /\ calls'[1].table = "sys_user"
             /\ res'.result.token \notin DOMAIN sessions
             /\ DOMAIN sessions' = DOMAIN sessions \cup {res'.result.token}
             /\ \A t \in DOMAIN sessions : sessions'[t] = sessions[t]
             /\ sessions'[res'.result.token].userSysId \in ActiveIdentities(req'.body)
       /\ (IsLogin(req') /\ ~res'.ok)
          => /\ sessions' = sessions
             /\ res'.result = NoResult
             /\ res'.status \in {400, 401}]_vars

\* C7 (witness): a login was answered 401 after its identity lookup, while
\* the store holds the session of an earlier login
C7_Witness ==
    /\ IsLogin(req)
    /\ res.status = 401
    /\ Len(calls) = 1
    /\ Cardinality(DOMAIN sessions) = 1

\* ---- C8 ----
IsIdentityLookup(c) == c.table = "sys_user" /\ c.method = "GET"

IdentityLookups == {i \in 1..Len(calls) : IsIdentityLookup(calls[i])}

Supplied(r) == [username |-> r.body.username, password |-> r.body.password]

\* C8 (as stated): every login makes exactly one identity lookup, with the
\* supplied username and password.
C8_EveryLoginLooksUpOnce ==
    IsLogin(req)
        => /\ Cardinality(IdentityLookups) = 1
           /\ \A i \in IdentityLookups : calls[i].using = Supplied(req)

\* C8 (amended): a login that carries a username and a password makes
\* exactly one identity lookup, its first call, with the supplied username
\* and password and never with the privileged credential, whatever the flag
\* is; a login that lacks either makes no upstream call.
C8_LoginLooksUpOnceWhenSupplied ==
    IsLogin(req)
        => IF req.body.username = "" \/ req.body.password = ""
           THEN calls = << >> /\ res.status = 400
           ELSE /\ IdentityLookups = {1}
                /\ calls[1].using = Supplied(req)
                /\ calls[1].using # adminCreds
                /\ calls[1].query = << << <<Cond("user_name", "=", req.body.username)>>,
                                          <<Cond("active", "=", "true")>> >> >>

\* C8 (witness): with the flag on, a login with a username and a password
\* has made its lookup and stored a session that holds the privileged
\* credential
C8_Witness ==
    /\ IsLogin(req)
    /\ AdminForAll
    /\ res.ok
    /\ calls[1].using.username = "alice"
    /\ sessions[res.result.token].creds = adminCreds

\* ---- C9 ----
GroupQueries == {i \in 1..Len(calls) : calls[i].table = "sys_user_grmember"}

\* C9 (as stated): a successful login makes exactly one group-membership
\* query, whether it succeeds or fails.
C9_OneGroupQuery ==
    (IsLogin(req) /\ res.ok) => Cardinality(GroupQueries) = 1

\* C9 (amended): a successful login makes one group-membership query with
\* the supplied credential; when that query succeeds it is the only one,
\* and when it fails exactly one more follows, with the privileged
\* credential, for the same identity.
C9_GroupQueryAndFallback ==
    (IsLogin(req) /\ res.ok)
        => /\ 2 \in GroupQueries
           /\ calls[2].using = Supplied(req)
           /\ callOk[2] => GroupQueries = {2}
           /\ ~callOk[2] => /\ GroupQueries = {2, 3}
                            /\ calls[3].using = adminCreds
                            /\ calls[3].query = calls[2].query

\* C9 (witness): a login succeeded although both of its group-membership
\* queries failed
C9_Witness ==
    /\ IsLogin(req)
    /\ res.ok
    /\ Len(calls) = 3
    /\ ~callOk[2]
    /\ ~callOk[3]
    /\ res.result.groups = << >>

\* ---- C10 ----
\* the credential a session's login was made with: the lookup succeeded, so
\* it is the identity's login name and the password the upstream holds
LoginCredsOf(session) ==
    [username |-> session.user.user_name.v,
     password |-> UpstreamPassword(session.user.user_name.v)]

SessionAsConfigured(session) ==
    /\ AdminForAll => session.creds = adminCreds /\ session.via = "admin"
    /\ ~AdminForAll => session.creds = LoginCredsOf(session) /\ session.via = "user"
    /\ session.creds = adminCreds <=> AdminForAll
    /\ pickActingCreds(session) = session.creds
    /\ session.userSysId = session.user.sys_id.v

\* C10: every step leaves each session holding the privileged credential
\* exactly when the flag is on and the login's credential exactly when it is
\* off, with pickActingCreds returning that credential; a login stores the
\* identity and groups it obtained, and no later step changes a session.
C10_SessionCredential ==
    [][/\ \A t \in DOMAIN sessions' : SessionAsConfigured(sessions'[t])
       /\ \A t \in DOMAIN sessions : t \in DOMAIN sessions' /\ sessions'[t] = sessions[t]
       /\ (IsLogin(req') /\ res'.ok)
          => /\ sessions'[res'.result.token].user = res'.result.user
             /\ sessions'[res'.result.token].groups = res'.result.groups
             /\ ~AdminForAll => sessions'[res'.result.token].creds = Supplied(req')
             /\ sessions'[res'.result.token].userSysId \in ActiveIdentities(req'.body)]_vars

\* C10 (witness): with the flag off, a session whose login found no groups
\* has made a later request and holds the credential of its login
C10_Witness ==
    /\ ~AdminForAll
    /\ req.route = "GET /api/incidents"
    /\ ~Unauthenticated(req, sessions)
    /\ sessions[CarriedToken(req)].creds = [username |-> "bob", password |-> "pwB"]
    /\ Len(calls) >= 1
    /\ \A i \in 1..Len(calls) : calls[i].using = [username |-> "bob", password |-> "pwB"]

(***************************************************************************)
(* Properties of the Session Store, the lists, resolveRef, the             *)
(* Display-Name Cache and the activity narrative                           *)
(***************************************************************************)

\* ---- C11 ----
\* the request carries a token the store issued
Authenticated(r, ss) == IsGuarded(r) /\ ~Unauthenticated(r, ss)

\* C11: no step, the page's logout included, removes or changes a session of
\* the store; a request that carries an issued token is never answered 401,
\* its handler acts for the identity stored under that token, and the
\* session debug route reports that identity and its stored groups.
C11_SessionsOutliveLogout ==
    [][/\ \A t \in DOMAIN sessions : t \in DOMAIN sessions' /\ sessions'[t] = sessions[t]
       /\ (req' # NoRequest /\ Authenticated(req', sessions))
          => /\ res'.status # 401
             /\ sessions'[CarriedToken(req')] = sessions[CarriedToken(req')]
             /\ (req'.route = "GET /api/debug/session" /\ res'.ok)
                => /\ res'.result.user_sys_id = sessions[CarriedToken(req')].userSysId
                   /\ res'.result.stored_groups = sessions[CarriedToken(req')].groups]_vars

\* C11 (witness): the page has logged out, and a request carrying the token
\* it discarded has been answered with the identity and groups of its login
C11_Witness ==
    /\ StoredToken = ""
    /\ req.route = "GET /api/debug/session"
    /\ Authenticated(req, sessions)
    /\ res.ok
    /\ res.result.user_sys_id = "ua"
    /\ res.result.stored_groups = sessions[CarriedToken(req)].groups
    /\ Len(sessions[CarriedToken(req)].groups) = 2

\* ---- C12 ----
\* every incident record there can be, by assignee, assignment group and state
IncidentRecords ==
    [assigned_to : {"", "ua", "ub", "uc"}, assignment_group : {"", "g1", "g2", "g3"},
     state : {"1", "2", "3", "6", "7"}]

\* what the incidents list is to select for identity u with groups g
SelectedFor(u, g, row) ==
    /\ row.state \notin {"6", "7"}
    /\ \/ row.assigned_to = u
       \/ row.assignment_group \in SeqToSet(g)
       \/ row.assigned_to = "" /\ row.assignment_group = ""

\* the identifiers of the rows of a list response
IdsOf(rows) == {rows[i].sys_id.v.value.v : i \in 1..Len(rows)}

\* C12: an incidents request of a session that holds a non-empty group set
\* makes one upstream call, a query of the incident table that matches a
\* record exactly when its state is neither 6 nor 7 and it is assigned to
\* the session's identity, or its assignment group is one of the session's
\* groups, or it has neither assignee nor group; this holds whichever
\* credential makes the call, and the rows of the response are among the
\* incidents so selected.
C12_IncidentsQueryScope ==
    (req.route = "GET /api/incidents" /\ Authenticated(req, sessions)
        /\ Len(sessions[CarriedToken(req)].groups) > 0)
    => /\ Len(calls) = 1
       /\ calls[1].table = "incident"
       /\ calls[1].sys_id = ""
       /\ calls[1].using = pickActingCreds(sessions[CarriedToken(req)])
       /\ \A row \in IncidentRecords :
            QueryMatches(row, calls[1].query)
                <=> SelectedFor(sessions[CarriedToken(req)].userSysId,
                                sessions[CarriedToken(req)].groups, row)
       /\ res.ok
          => IdsOf(res.result)
                \subseteq {row.sys_id : row \in
                            {x \in SeqToSet(TableRows("incident")) :
                                SelectedFor(sessions[CarriedToken(req)].userSysId,
                                            sessions[CarriedToken(req)].groups, x)}}

\* C12 (witness): with the user's own credential making the call, alice's
\* incidents list holds her incident, the one of her second group and the
\* unassigned one, and none of the closed, foreign or half-assigned ones
C12_Witness ==
    /\ req.route = "GET /api/incidents"
    /\ Authenticated(req, sessions)
    /\ sessions[CarriedToken(req)].groups = <<"g1", "g2">>
    /\ Len(calls) = 1
    /\ calls[1].using = [username |-> "alice", password |-> "pwA"]
    /\ res.ok
    /\ IdsOf(res.result) = {"i1", "i3", "i5"}

\* ---- C13 ----
\* the input is a string of the canonical identifier shape
IsCanonical(x) == x.t = "string" /\ x.v \in HexIds

\* C13: applied to a string of the canonical identifier shape, resolveRef
\* returns that string and makes no upstream call, for the user kind and
\* for the group kind, whatever credential it is handed.
C13_CanonicalPassesThrough ==
    (applied.fn = "resolveRef" /\ IsCanonical(applied.displayOrId))
    => /\ returned.value = applied.displayOrId
       /\ returned.calls = << >>
       /\ ~returned.threw

\* C13 (witness): a user's identifier handed over for the group kind, with
\* a rejected credential and a failing upstream, has come back as it was
C13_Witness ==
    /\ applied.fn = "resolveRef"
    /\ applied.displayOrId = JsStr("ub")
    /\ applied.forceTable = "sys_user_group"
    /\ ~CredsValid(applied.using)
    /\ applied.fate[1] = "raise"
    /\ returned.value = JsStr("ub")
    /\ returned.calls = << >>

\* ---- C14 ----
\* the value an input stands for: the `value` of a wrapped one, else itself
Unwrapped(x) == IF x.t = "object" /\ "value" \in DOMAIN x.v THEN x.v.value ELSE x

\* the input is not empty and is not of the canonical shape
NeedsLookup(x) == ~Falsy(Unwrapped(x)) /\ ~IsCanonical(Unwrapped(x))

\* the call reached the upstream and was answered
Answered(using, fate) == fate[1] = "answer" /\ CredsValid(using)

\* the call threw: it failed after its retries, or the upstream rejected it
Threw(using, fate) == fate[1] = "raise" \/ (fate[1] = "answer" /\ ~CredsValid(using))

\* C14: applied to an input that is not empty and not of the canonical
\* shape, resolveRef makes exactly one upstream call, a query of the table of
\* its kind limited to one row; when the call returns a row it gives that
\* row's identifier, and when the call returns without a row it gives the
\* input back: the very string it was handed, or the value of a wrapped input.
C14_OneLookupThenPassThrough ==
    (applied.fn = "resolveRef" /\ NeedsLookup(applied.displayOrId))
    => /\ Len(returned.calls) = 1
       /\ returned.calls[1].method = "GET"
       /\ returned.calls[1].limit = 1
       /\ returned.calls[1].sys_id = ""
       /\ returned.calls[1].using = applied.using
       /\ returned.calls[1].table
            = (IF applied.forceTable = "sys_user" THEN "sys_user" ELSE "sys_user_group")
       /\ returned.threw <=> Threw(applied.using, applied.fate)
       /\ (Answered(applied.using, applied.fate)
            /\ Len(UpstreamAnswer(returned.calls[1]).result) > 0)
          => /\ returned.value = UpstreamAnswer(returned.calls[1]).result[1].sys_id
             /\ IsCanonical(returned.value)
       /\ (~returned.threw
            /\ ~(Answered(applied.using, applied.fate)
                    /\ Len(UpstreamAnswer(returned.calls[1]).result) > 0))
          => /\ returned.value = Unwrapped(applied.displayOrId)
             /\ applied.displayOrId.t = "string" => returned.value = applied.displayOrId

\* C14 (witness): a fragment of a group's name has been resolved to the
\* group's identifier by one lookup
C14_Witness ==
    /\ applied.fn = "resolveRef"
    /\ applied.displayOrId = JsStr("Net")
    /\ applied.forceTable = "sys_user_group"
    /\ Len(returned.calls) = 1
    /\ returned.value = JsStr("g1")

\* C14 (second case): a name nobody bears has come back as it was handed
\* over, after one lookup that returned no row
C14_PassedThrough ==
    /\ applied.fn = "resolveRef"
    /\ applied.displayOrId = JsStr("nobody")
    /\ Answered(applied.using, applied.fate)
    /\ Len(returned.calls) = 1
    /\ returned.value = JsStr("nobody")

\* ---- C15 ----
\* _resolveDisplayName was applied to a record (lines 252-253 passed)
AskedName == applied.fn = "_resolveDisplayName" /\ ~Falsy(applied.sys_id)

\* the entry it found had reached its expiry
FoundExpired == applied.hit # Undefined /\ applied.hit.exp <= applied.now

\* it answered from the cache: it made no upstream call
ServedFromCache == returned.calls = << >>

\* the one fetch it makes: the record by its identifier, with display values
IsNameFetch(c) ==
    /\ c.method = "GET"
    /\ c.table = applied.table
    /\ c.sys_id = applied.sys_id.v
    /\ c.flag = DisplayAll
    /\ c.using = applied.using

\* C15: at every value of the clock, _resolveDisplayName answers from the
\* cache only when the entry's expiry is later than the clock; an entry
\* whose expiry is at or before the clock is not served, and one fresh
\* upstream fetch is made for its key.
C15_NoExpiredEntryServed ==
    AskedName
    => /\ ServedFromCache
          => /\ applied.hit # Undefined
             /\ applied.hit.exp > applied.now
             /\ returned.name = applied.hit.name
       /\ FoundExpired
          => /\ Len(returned.calls) = 1
             /\ IsNameFetch(returned.calls[1])

\* C15 (witness): an entry read at the very instant of its expiry was not
\* served; the name was fetched again and the entry replaced
C15_Witness ==
    /\ AskedName
    /\ applied.hit # Undefined
    /\ applied.hit.exp = applied.now
    /\ applied.now > 0
    /\ Len(returned.calls) = 1
    /\ nameCache[<<applied.table, applied.sys_id.v>>].exp = applied.now + NAME_TTL_MS

\* ---- C16 ----
\* the fetch returned
FetchReturned == applied.fate[1] = "empty" \/ Answered(applied.using, applied.fate)

\* the name the fetched record carries, as the fetch returned it
FetchedName(c) == UpstreamAnswer(c).result.name

\* C16: an entry that is present and not expired is returned with no
\* upstream call and the cache is left as it was; otherwise exactly one
\* fetch is made, and when it returns, the label it yields is stored under
\* the key of table and identifier with the expiry NAME_TTL_MS after the
\* clock read at entry, and is returned, so that a call for the same record
\* made before that expiry is answered from the cache with the same label.
C16_HitOrFetchAndStore ==
    AskedName
    => /\ (applied.hit # Undefined /\ applied.hit.exp > applied.now)
          => /\ ServedFromCache
             /\ returned.name = applied.hit.name
             /\ nameCache[<<applied.table, applied.sys_id.v>>] = applied.hit
       /\ ~(applied.hit # Undefined /\ applied.hit.exp > applied.now)
          => /\ Len(returned.calls) = 1
             /\ IsNameFetch(returned.calls[1])
             /\ FetchReturned
                => /\ nameCache[<<applied.table, applied.sys_id.v>>]
                        = [name |-> returned.name, exp |-> applied.now + NAME_TTL_MS]
                   /\ Answered(applied.using, applied.fate)
                        => returned.name = FetchedName(returned.calls[1])
                   /\ now < applied.now + NAME_TTL_MS
                        => \A fate \in Fates(1) :
                            /\ _resolveDisplayName(applied.using, applied.table,
                                                   applied.sys_id, nameCache, 1,
                                                   fate).calls = << >>
                            /\ _resolveDisplayName(applied.using, applied.table,
                                                   applied.sys_id, nameCache, 1,
                                                   fate).name = returned.name

\* C16 (witness): a user's name was fetched once and stored, and the clock
\* has not moved since
C16_Witness ==
    /\ AskedName
    /\ applied.table = "sys_user"
    /\ applied.hit = Undefined
    /\ Answered(applied.using, applied.fate)
    /\ Len(returned.calls) = 1
    /\ now = applied.now
    /\ nameCache[<<"sys_user", "ua">>].name = returned.name
    /\ nameCache[<<"sys_user", "ua">>].exp = now + NAME_TTL_MS

\* ---- C17 ----
ActivityRoute == "GET /api/record/:table/:sys_id/activity"

\* an activity request whose two feeds were fetched and that went on to
\* look names up
NamesLookedUp(r, cs, oks) ==
    /\ r.route = ActivityRoute
    /\ Len(cs) >= 3
    /\ oks[1]
    /\ oks[2]

JournalEntries(narrative) ==
    {narrative[i] : i \in {j \in 1..Len(narrative) : narrative[j].type # "FIELD"}}

\* the rows the upstream holds for a record in each feed
JournalRowsOf(id) == SelectSeq(sys_journal_field, LAMBDA row : row.element_id = id)

AuditRowsOf(id) == SelectSeq(sys_audit, LAMBDA row : row.documentkey = id)

\* an audit row the narrative is to show: not the echo of a journal field,
\* and not an alias of a state change that the feed holds at the same instant
Shown(row, rows) ==
    /\ LowerCase(row.fieldname) \notin {"work_notes", "comments"}
    /\ ~(row.fieldname = "incident_state"
            /\ \E j \in 1..Len(rows) :
                rows[j].fieldname = "state"
                    /\ rows[j].sys_created_on = row.sys_created_on)

ShownRowsOf(id) == SelectSeq(AuditRowsOf(id), LAMBDA row : Shown(row, AuditRowsOf(id)))

FieldEntries(narrative) ==
    {narrative[i] : i \in {j \in 1..Len(narrative) : narrative[j].type = "FIELD"}}

\* the k-th call of the request was a name lookup that threw, and so did
\* every lookup of the same record in the request
LookupFailed(cs, oks, k) ==
    /\ k >= 3
    /\ ~oks[k]
    /\ \A j \in 3..Len(cs) :
        (cs[j].table = cs[k].table /\ cs[j].sys_id = cs[k].sys_id) => ~oks[j]

\* C17: in an activity request that looks names up, a name lookup that
\* throws does not fail the request and leaves the cache entry of its record
\* as it was; the narrative has one entry for every audit row to be shown
\* and for every journal row the journal feed returned; and when every name
\* lookup of the request throws, the cache is unchanged; the entry of a
\* failed lookup shows the raw identifier.
C17_FailedLookupKeepsNarrative ==
    [][NamesLookedUp(req', calls', callOk')
        => /\ res'.status = 200
           /\ res'.ok
           /\ Cardinality(FieldEntries(res'.result)) = Len(ShownRowsOf(req'.sys_id))
           /\ Cardinality(JournalEntries(res'.result)) \in {0, Len(JournalRowsOf(req'.sys_id))}
           /\ Len(res'.result) = Cardinality(FieldEntries(res'.result))
                                    + Cardinality(JournalEntries(res'.result))
           /\ \A k \in 3..Len(calls') :
                LookupFailed(calls', callOk', k)
                    => /\ MapGet(nameCache', <<calls'[k].table, calls'[k].sys_id>>)
                            = MapGet(nameCache, <<calls'[k].table, calls'[k].sys_id>>)
                       /\ \E e \in FieldEntries(res'.result) :
                            calls'[k].sys_id \in {e.text.old, e.text.new}
           /\ (\A k \in 3..Len(calls') : ~callOk'[k]) => nameCache' = nameCache]_vars

\* C17 (witness): with another record's name in the cache, the three name
\* lookups of an activity request have all thrown; the request was answered
\* with its five entries and the cache holds what it held
C17_Witness ==
    /\ req.route = ActivityRoute
    /\ req.sys_id = "i1"
    /\ callOk = <<TRUE, TRUE, FALSE, FALSE, FALSE>>
    /\ res.ok
    /\ Len(res.result) = 5
    /\ \E i \in 1..5 : res.result[i].text.old = "g3" /\ res.result[i].text.new = "g1"
    /\ DOMAIN nameCache = {<<"sys_user", "ub">>}

\* ---- C18 ----
\* the journal fetch (call 1) or the audit fetch (call 2) of the request threw
FeedFailed(cs, oks) == Len(cs) >= 1 /\ (~oks[1] \/ (Len(cs) >= 2 /\ ~oks[2]))

\* C18: an activity request of a session whose journal fetch or audit fetch
\* throws is answered 500 'Activity fetch failed' with no narrative, also
\* when the journal fetch returned and only the audit fetch threw; it makes
\* no call after the one that threw.
C18_ActivityAllOrNothing ==
    (req.route = ActivityRoute /\ Authenticated(req, sessions) /\ FeedFailed(calls, callOk))
    => /\ res = Failed("Activity fetch failed")
       /\ res.result = NoResult
       /\ ~callOk[Len(calls)]
       /\ Len(calls) <= 2

\* C18 (witness): the journal feed of a record with a journal row was
\* fetched, the audit fetch threw, and the request was answered 500
C18_Witness ==
    /\ req.route = ActivityRoute
    /\ req.sys_id = "i1"
    /\ callOk = <<TRUE, FALSE>>
    /\ calls[1].table = "sys_journal_field"
    /\ calls[2].table = "sys_audit"
    /\ res.status = 500
    /\ res.message = "Activity fetch failed"

\* ---- C19 ----
\* the positions of the narrative that show a change of state at instant ts
StateEntriesAt(narrative, ts) ==
    {i \in 1..Len(narrative) :
        /\ narrative[i].type = "FIELD"
        /\ narrative[i].ts = ts
        /\ narrative[i].text.field = "state"}

\* the audit feed of the request was delivered with its rows
AuditDelivered ==
    /\ req.route = ActivityRoute
    /\ res.ok
    /\ FieldEntries(res.result) # {}

LexLarger(a, b) ==
    \/ \E k \in 1..Len(a) :
        /\ k <= Len(b)
        /\ a[k] > b[k]
        /\ \A j \in 1..(k - 1) : a[j] = b[j]
    \/ /\ Len(a) > Len(b)
       /\ \A j \in 1..Len(b) : a[j] = b[j]

LabelOf(id) ==
    IF \E i \in 1..Len(sys_user) : sys_user[i].sys_id = id
    THEN (CHOOSE row \in SeqToSet(sys_user) : row.sys_id = id).name
    ELSE (CHOOSE row \in SeqToSet(sys_user_group) : row.sys_id = id).name

\* an audit row of an assignment field that goes from a record to nothing
ClearsAssignment(row) ==
    /\ row.fieldname \in {"assigned_to", "assignment_group"}
    /\ row.oldvalue \in HexIds
    /\ row.newvalue = ""

\* the entries of the narrative that stand for an audit row
EntriesOf(narrative, row) ==
    {e \in FieldEntries(narrative) :
        e.ts = row.sys_created_on /\ e.text.field = row.fieldname}

\* a name lookup of the request threw
SomeLookupThrew == \E k \in 3..Len(calls) : ~callOk[k]

\* C21: when the audit feed of an activity request holds an assignment row
\* whose old value is an identifier and whose new value is empty, and no
\* name lookup of the request throws, the row's line shows the name of the
\* old record and the placeholder dash, and no lookup is made for the empty
\* side: the request looks up the old record or nothing.
C21_ClearedAssignmentLine ==
    (AuditDelivered /\ ~SomeLookupThrew)
    => \A row \in SeqToSet(AuditRowsOf(req.sys_id)) :
        ClearsAssignment(row)
        => /\ EntriesOf(res.result, row) # {}
           /\ \A e \in EntriesOf(res.result, row) :
                /\ e.text.old = LabelOf(row.oldvalue)
                /\ e.text.new = Dash
           /\ \A k \in 3..Len(calls) : calls[k].sys_id # ""

\* ---- C22 ----
UpdateRoute == "PATCH /api/record/:table/:sys_id"

JournalFields == {"work_notes", "comments"}

\* the PATCH calls of a request, in the order they were made
Patches(cs) == SelectSeq(cs, LAMBDA c : c.method = "PATCH")

\* a PATCH of structured fields, and one of journal fields (line 694)
IsStructuredPatch(c) == c.method = "PATCH" /\ c.flag = ""

IsJournalPatch(c) == c.method = "PATCH" /\ c.flag = InputDisplay

\* the login name of the session the request carries
Who(r) == sessions[CarriedToken(r)].user.user_name.v

\* C22: an update of a session that carries {state: "2", work_notes:
\* "checking now"} and succeeds has made exactly two PATCH calls: first one
\* with the body {state: "2"}, then one with the body {work_notes: "checking
\* now" stamped with the session's login name}; and in every update a PATCH
\* of structured fields carries no journal field, a PATCH of journal fields
\* carries nothing else, and no structured PATCH follows a journal PATCH.
C22_TwoPatchesInOrder ==
    (req.route = UpdateRoute /\ Authenticated(req, sessions))
    => /\ \A i \in 1..Len(Patches(calls)) :
            /\ IsStructuredPatch(Patches(calls)[i])
                => DOMAIN Patches(calls)[i].body \cap JournalFields = {}
            /\ IsJournalPatch(Patches(calls)[i])
                => /\ DOMAIN Patches(calls)[i].body \subseteq JournalFields
                   /\ i = Len(Patches(calls))
            /\ IsStructuredPatch(Patches(calls)[i]) \/ IsJournalPatch(Patches(calls)[i])
       /\ (res.ok /\ req.body = [state |-> JsStr("2"), work_notes |-> JsStr("checking now")])
          => /\ Len(Patches(calls)) = 2
             /\ IsStructuredPatch(Patches(calls)[1])
             /\ Patches(calls)[1].body = [state |-> JsStr("2")]
             /\ IsJournalPatch(Patches(calls)[2])
             /\ Patches(calls)[2].body
                    = [work_notes |-> [text |-> "checking now", contBy |-> Who(req)]]

\* C22 (witness): alice's update with a state and a work note has succeeded
\* after its two PATCH calls, made with her own credential
C22_Witness ==
    /\ req.route = UpdateRoute
    /\ Authenticated(req, sessions)
    /\ req.body = [state |-> JsStr("2"), work_notes |-> JsStr("checking now")]
    /\ res.ok
    /\ Len(calls) = 3
    /\ calls[3].using = [username |-> "alice", password |-> "pwA"]
    /\ calls[3].body.work_notes.contBy = "alice"

\* ---- C23 ----
StructuredFields ==
    {"state", "impact", "urgency", "priority", "assigned_to", "assignment_group",
     "short_description", "description"}

\* the value supplied for a field is empty: '' or null, bare or wrapped
SuppliedEmpty(body, f) ==
    /\ f \in DOMAIN body
    /\ \/ body[f].t = "null"
       \/ body[f].t = "string" /\ body[f].v = ""
       \/ HasOwn(body[f], "value") /\ Falsy(body[f].v["value"])

\* C23: in every update, a structured field that the request does not carry,
\* or carries with an empty value, is in no structured PATCH; the assignment
\* fields are no exception.
C23_EmptyFieldsStripped ==
    (req.route = UpdateRoute /\ Authenticated(req, sessions))
    => \A i \in 1..Len(calls) :
        IsStructuredPatch(calls[i])
        => \A f \in StructuredFields :
            (f \notin DOMAIN req.body \/ SuppliedEmpty(req.body, f))
                => f \notin DOMAIN calls[i].body

\* ---- C24 ----
\* the structured fields of an update that remain once the empty are stripped
Remaining(body) == {f \in StructuredFields \cap DOMAIN body : ~SuppliedEmpty(body, f)}

\* the journal fields an update carries
JournalSupplied(body) == JournalFields \cap DOMAIN body

SomeStructuredPatch == \E i \in 1..Len(calls) : IsStructuredPatch(calls[i])

SomeJournalPatch == \E i \in 1..Len(calls) : IsJournalPatch(calls[i])

\* a journal field supplied as text is sent stamped; supplied empty or as
\* blanks it is sent empty, with no stamp
JournalValueSent(body, f, sent) ==
    IF Trim(TemplateString(body[f])) = ""
    THEN sent = [text |-> "", contBy |-> ""]
    ELSE sent.text = Trim(TemplateString(body[f])) /\ sent.contBy # ""

\* C24: an update makes a structured PATCH only if a structured field
\* remains after stripping and a journal PATCH only if it carries a journal
\* field, and an update that succeeds has made each of them exactly when
\* that is so; the journal PATCH carries the journal fields supplied, an
\* empty or blank one as an empty value without a stamp; an update with no
\* field that succeeds has made no PATCH.
C24_PatchesIssuedWhenNeeded ==
    (req.route = UpdateRoute /\ Authenticated(req, sessions))
    => /\ SomeStructuredPatch => Remaining(req.body) # {}
       /\ SomeJournalPatch => JournalSupplied(req.body) # {}
       /\ res.ok => /\ SomeStructuredPatch <=> Remaining(req.body) # {}
                    /\ SomeJournalPatch <=> JournalSupplied(req.body) # {}
       /\ \A i \in 1..Len(calls) :
            IsJournalPatch(calls[i])
            => /\ DOMAIN calls[i].body = JournalSupplied(req.body)
               /\ \A f \in DOMAIN calls[i].body :
                    JournalValueSent(req.body, f, calls[i].body[f])
       /\ (DOMAIN req.body = {} /\ callOk[1]) => res.ok /\ Len(Patches(calls)) = 0

\* the update carries an assignment field with an empty value
EmptyAssignment(body) ==
    \E f \in {"assigned_to", "assignment_group"} : SuppliedEmpty(body, f)

\* ---- C26 ----
DecideRoute == "POST /api/approval/:sys_id/decide"

\* the state a decision asks for
AskedState(decision) ==
    CASE decision = "approve" -> "approved"
      [] decision = "reject" -> "rejected"
      [] OTHER -> ""

\* C26: a decision other than approve or reject is answered 400 with no
\* upstream call; approve or reject makes exactly one upstream call, a PATCH
\* of the approval that sets its state to approved or rejected and carries
\* the comment only when there is one, and no call that reads the approval.
C26_DecisionForwardedOrRefused ==
    (req.route = DecideRoute /\ Authenticated(req, sessions))
    => IF AskedState(req.body.decision) = ""
       THEN res.status = 400 /\ ~res.ok /\ Len(calls) = 0
       ELSE /\ Len(calls) = 1
            /\ calls[1].method = "PATCH"
            /\ calls[1].table = "sysapproval_approver"
            /\ calls[1].sys_id = req.sys_id
            /\ calls[1].body.state = AskedState(req.body.decision)
            /\ IF req.body.comments = ""
               THEN DOMAIN calls[1].body = {"state"}
               ELSE calls[1].body.comments = req.body.comments

\* ---- C25 ----
\* position of the update's structured PATCH among its calls, 0 if none
StructuredAt == IF SomeStructuredPatch
                THEN CHOOSE i \in 1..Len(calls) : IsStructuredPatch(calls[i])
                ELSE 0

JournalAt == IF SomeJournalPatch
             THEN CHOOSE i \in 1..Len(calls) : IsJournalPatch(calls[i])
             ELSE 0

\* the structured PATCH went through and the journal PATCH after it failed
PartlyApplied ==
    /\ req.route = UpdateRoute
    /\ StructuredAt > 0 /\ callOk[StructuredAt]
    /\ JournalAt > 0 /\ ~callOk[JournalAt]

\* C25: an update whose structured PATCH succeeded and whose journal PATCH
\* failed answers 'Update failed'; the failed journal PATCH is its last
\* upstream call, so nothing undoes the structured PATCH, which stays the
\* one successful write of the request; and an update answers success only
\* if every PATCH it issued succeeded.
C25_NoRollback ==
    (req.route = UpdateRoute /\ Authenticated(req, sessions))
    => /\ PartlyApplied
          => /\ ~res.ok /\ res.status = 500 /\ res.message = "Update failed"
             /\ StructuredAt < JournalAt
             /\ JournalAt = Len(calls)
             /\ Len(Patches(calls)) = 2
       /\ res.ok => \A i \in 1..Len(calls) : calls[i].method = "PATCH" => callOk[i]

C25_Witness ==
    /\ Authenticated(req, sessions)
    /\ PartlyApplied
    /\ res.message = "Update failed"
    /\ JournalAt = Len(calls)

\* ---- C27 ----
\* the envelope of the response says ok: false
EnvelopeNotOk(response) ==
    /\ response.json # NotJson
    /\ HasOwn(response.json, "ok")
    /\ response.json.v["ok"] = JsBool(FALSE)

\* C27: api raises for every response whose status is not 2xx and for every
\* response whose envelope says ok: false; it returns a result only for a
\* 2xx response whose envelope does not say ok: false.
C27_ApiRaisesOnFailure ==
    applied.fn = "api"
    => /\ (~ResponseOk(applied.response) \/ EnvelopeNotOk(applied.response))
          => returned.threw
       /\ ~returned.threw
          => ResponseOk(applied.response) /\ ~EnvelopeNotOk(applied.response)

\* ---- C28 ----
IsScalar(v) == v.t \in {"string", "number", "boolean"}

\* an audit value that is the empty string, null or undefined
IsNothing(v) == v.t \in {"null", "undefined"} \/ v = JsStr("")

\* a string that is all blanks
IsBlank(str) == str # "" /\ Trim(str) = ""

\* C28 as stated: a scalar audit value unwraps to its string form,
\* unchanged, and an audit value that is empty, null or undefined is
\* rendered as the dash.
C28_ScalarUnchanged ==
    applied.fn = "unwrapAuditVal"
    => /\ IsScalar(applied.oldvalue) => returned.rawOld = PrimToString(applied.oldvalue)
       /\ IsScalar(applied.newvalue) => returned.rawNew = PrimToString(applied.newvalue)
       /\ IsNothing(applied.oldvalue) => returned.oldVal = Dash
       /\ IsNothing(applied.newvalue) => returned.newVal = Dash

\* how a scalar audit value is shown: its string form without the blanks
\* around it, the dash when nothing is left
ShownScalar(v, raw, shown) ==
    /\ raw = Trim(PrimToString(v))
    /\ shown = IF PrimToString(v) = "" \/ IsBlank(PrimToString(v)) THEN Dash
               ELSE Trim(PrimToString(v))

\* C28 (amended): a scalar audit value unwraps to its string form with the
\* blanks around it removed, so unchanged when it has none; an audit value
\* that is empty, all blanks, null or undefined is rendered as the dash,
\* and any other scalar as its unwrapped string form.
C28_ScalarTrimmedOrDash ==
    applied.fn = "unwrapAuditVal"
    => /\ IsScalar(applied.oldvalue)
          => ShownScalar(applied.oldvalue, returned.rawOld, returned.oldVal)
       /\ IsScalar(applied.newvalue)
          => ShownScalar(applied.newvalue, returned.rawNew, returned.newVal)
       /\ IsNothing(applied.oldvalue) => returned.oldVal = Dash
       /\ IsNothing(applied.newvalue) => returned.newVal = Dash

C28_Witness ==
    /\ applied.fn = "unwrapAuditVal"
    /\ applied.oldvalue = JsStr(" ua ") /\ returned.oldVal = "ua"
    /\ applied.newvalue = JsNull /\ returned.newVal = Dash

\* ---- C29 ----
\* C29: the delay slept before the k-th retry of a call is 100 * 2^(k-1)
\* milliseconds, whether the retry follows a 5xx answer or a failed fetch.
C29_BackoffStartsAt100 ==
    \A k \in 1..Len(snDelays) : snDelays[k] = 100 * Pow2(k - 1)

\* ---- C30 ----
\* the name a field line gives the field of an audit row
LineField(row) == IF LowerCase(row.fieldname) = "incident_state" THEN "state"
                  ELSE row.fieldname

\* the positions of the narrative that are the field line of an audit row
FieldLinesOf(narrative, row) ==
    {i \in 1..Len(narrative) :
        /\ narrative[i].type = "FIELD"
        /\ narrative[i].ts = row.sys_created_on
        /\ narrative[i].by = row.sys_created_by
        /\ narrative[i].text.field = LineField(row)}

\* the positions of the narrative that are the journal line of a journal row
JournalLinesOf(narrative, row) ==
    {i \in 1..Len(narrative) :
        /\ narrative[i].type = UpperCase(row.element)
        /\ narrative[i].ts = row.sys_created_on
        /\ narrative[i].by = row.sys_created_by
        /\ narrative[i].text.body = Trim(row.value)}

ActingCredsOf(r) ==
    IF USE_ADMIN_FOR_ALL \in {"true", "TRUE"} THEN adminCreds
    ELSE sessions[CarriedToken(r)].creds

\* C31: in an activity request of a session the journal feed is fetched with
\* the session's acting credential, and the audit feed and every name are
\* fetched with the privileged credential, whatever the flag is.
C31_AuditAndNamesPrivileged ==
    (req.route = ActivityRoute /\ Authenticated(req, sessions))
    => \A k \in 1..Len(calls) :
        /\ k = 1 => calls[k].table = "sys_journal_field"
                    /\ calls[k].using = ActingCredsOf(req)
        /\ k = 2 => calls[k].table = "sys_audit" /\ calls[k].using = adminCreds
        /\ k >= 3 => calls[k].table \in {"sys_user", "sys_user_group"}
                     /\ calls[k].using = adminCreds

\* C31 (witness): with the flag off a user's session fetched the journal
\* feed with its own credential, and the audit feed and a name with the
\* privileged one
C31_Witness ==
    /\ req.route = ActivityRoute
    /\ USE_ADMIN_FOR_ALL = "false"
    /\ Len(calls) >= 3
    /\ calls[1].using # adminCreds
    /\ calls[1].using = sessions[CarriedToken(req)].creds
    /\ calls[2].using = adminCreds
    /\ calls[3].using = adminCreds

\* ---- C32 ----
\* the request asked the upstream for the audit feed
AuditFetchIssued == \E k \in 1..Len(calls) : calls[k].table = "sys_audit"

\* C32: an activity request issues its audit fetch without waiting for the
\* journal fetch, so the audit fetch is among its calls also when the journal
\* fetch ended in failure.
C32_FeedsFetchedInParallel ==
    (req.route = ActivityRoute /\ Authenticated(req, sessions)
        /\ Len(calls) >= 1 /\ ~callOk[1])
    => AuditFetchIssued

\* ---- C33 ----
\* the step leaves the entry of a key, or its absence, as it was
SameEntry(key) ==
    /\ key \in DOMAIN nameCache <=> key \in DOMAIN nameCache'
    /\ key \in DOMAIN nameCache => nameCache'[key] = nameCache[key]

\* the step is the completion of the awaiting call p
Completes(p) == inFlight' = inFlight (-) SetToBag({p})

\* the cache holds no entry of the key that may be served at the clock
Misses(key) == key \notin DOMAIN nameCache \/ nameCache[key].exp <= now

\* C33: however the calls interleave, a step changes the entry of a key only
\* as the completion of a call on that key, and the entry it leaves is the
\* pair of the label that call fetched and that call's own start time plus
\* NAME_TTL_MS, whatever entry stood there before; entries of other keys stay
\* as they were; and a call that misses issues a fetch of its own also while
\* a fetch of the same key is awaited.
C33_LastWriteWins ==
    [][/\ \A key \in DOMAIN nameCache \cup DOMAIN nameCache' :
            \/ SameEntry(key)
            \/ \E p \in BagToSet(inFlight) :
                /\ p.key = key
                /\ Completes(p)
                /\ nameCache'[key] = [name |-> returned'.name,
                                      exp |-> p.now + NAME_TTL_MS]
       /\ (BagCardinality(inFlight') < BagCardinality(inFlight) /\ applied'.ok)
          => nameCache'[applied'.key] = [name |-> returned'.name,
                                         exp |-> applied'.now + NAME_TTL_MS]
       /\ (BagCardinality(inFlight') >= BagCardinality(inFlight)
              /\ applied'.fn = "start" /\ applied'.key[2] \notin {"", "null"}
              /\ (applied' # applied \/ returned' # returned \/ inFlight' # inFlight)
              /\ Misses(applied'.key))
          => \E p \in BagToSet(inFlight') :
                /\ p.key = applied'.key
                /\ p.now = now
                /\ inFlight' = inFlight (+) SetToBag({p})
      ]_vars

\* C33 (witness): of two calls on the same key that missed, the one that
\* started first has stored its entry while the other still awaits its fetch
C33_Witness ==
    /\ applied.fn = "complete"
    /\ applied.ok
    /\ nameCache[applied.key].exp = applied.now + NAME_TTL_MS
    /\ \E p \in BagToSet(inFlight) : p.key = applied.key /\ p.now > applied.now

\* two calls on the same key that missed at the same instant each await a
\* fetch of their own
C33_TwoFetchesOfOneKey ==
    \E p \in BagToSet(inFlight) : CopiesIn(p, inFlight) = 2

\* ---- C34 ----
\* the keys an unwrap looks for, in the order of their priority
LabelKeys == <<"display_value", "value", "name", "user_name">>

\* the key of an object the unwrap goes into: the first of LabelKeys the
\* object has, else its only key, else none
ChosenKey(x) ==
    IF \E k \in 1..Len(LabelKeys) : LabelKeys[k] \in DOMAIN x.v
    THEN LabelKeys[CHOOSE k \in 1..Len(LabelKeys) :
                        /\ LabelKeys[k] \in DOMAIN x.v
                        /\ \A j \in 1..(k - 1) : LabelKeys[j] \notin DOMAIN x.v]
    ELSE IF Cardinality(DOMAIN x.v) = 1 THEN CHOOSE k \in DOMAIN x.v : TRUE
    ELSE ""

\* the depth of nesting of a value
RECURSIVE Depth(_)
Depth(x) ==
    IF ~IsObject(x) \/ DOMAIN x.v = {} THEN 0
    ELSE 1 + CHOOSE d \in 0..4 :
                /\ \E k \in DOMAIN x.v : Depth(x.v[k]) = d
                /\ \A k \in DOMAIN x.v : Depth(x.v[k]) <= d

\* what an object unwraps to, by its keys: what the value under the chosen
\* key unwraps to, and the empty string when no key is chosen
UnwrapsByPriority(x, raw) ==
    IsObject(x)
    => IF ChosenKey(x) = "" THEN raw = ""
       ELSE raw = unwrapAuditVal(x.v[ChosenKey(x)])

\* C34: an object-shaped audit value unwraps to what the value under one of
\* its keys unwraps to: display_value if the object has that key, else value,
\* else name, else user_name, else its only key; an object with none of these
\* and not exactly one key unwraps to its generic form, which for a plain
\* object is the empty string; the unwrap of every value of the model,
\* nested up to three deep, is a string.
C34_UnwrapPriority ==
    applied.fn = "unwrapAuditVal"
    => /\ UnwrapsByPriority(applied.oldvalue, returned.rawOld)
       /\ UnwrapsByPriority(applied.newvalue, returned.rawNew)
       /\ returned.rawOld \in STRING
       /\ returned.rawNew \in STRING

\* C34 (witness): an object with both a label and an inner value unwrapped to
\* its label, and a label nested three deep was reached through
\* display_value, value and name
C34_Witness ==
    /\ applied.fn = "unwrapAuditVal"
    /\ applied.oldvalue = Displayed("Bob B", "ub")
    /\ returned.rawOld = "Bob B"
    /\ Depth(applied.newvalue) = 3
    /\ returned.rawNew = "ua"

\* ---- C35 ----
\* the structured PATCH of the update was issued and threw
StructuredFailed == StructuredAt > 0 /\ ~callOk[StructuredAt]

\* C35: an update whose structured PATCH threw issues no journal PATCH: the
\* failed PATCH is its last upstream call, and it is answered 500 'Update
\* failed'.
C35_NoJournalAfterFailedFields ==
    (req.route = UpdateRoute /\ Authenticated(req, sessions) /\ StructuredFailed)
    => /\ ~SomeJournalPatch
       /\ StructuredAt = Len(calls)
       /\ res.status = 500 /\ ~res.ok /\ res.message = "Update failed"

\* C35 (witness): an update that carried a journal note had its structured
\* PATCH thrown back and stopped there
C35_Witness ==
    /\ req.route = UpdateRoute
    /\ "work_notes" \in DOMAIN req.body
    /\ StructuredFailed
    /\ ~SomeJournalPatch
    /\ res.message = "Update failed"

\* ---- C36 ----
\* C36: a call made as the update handler makes its journal PATCH, with the
\* default retries, is carried out by the upstream at most once, also when a
\* fetch of the call timed out or lost its answer after the upstream had
\* carried it out.
C36_NoteWrittenAtMostOnce ==
    (retries = DefaultRetries /\ ~returnRaw) => snWrites <= 1

\* ---- C37 ----
\* the calls of an update that come before its first PATCH
BeforeWrites(cs) ==
    IF Len(Patches(cs)) = 0 THEN cs
    ELSE SubSeq(cs, 1, (CHOOSE i \in 1..Len(cs) :
                            /\ cs[i].method = "PATCH"
                            /\ \A j \in 1..(i - 1) : cs[j].method # "PATCH") - 1)

\* the read of the record or a lookup of a reference threw
PreparationFailed ==
    \E k \in 1..Len(calls) : calls[k].method = "GET" /\ ~callOk[k]

\* C37: the first upstream call of an update is the read of the record it
\* names; every lookup of an assignment field comes before the first PATCH;
\* and an update whose read or lookup threw is answered 500 'Update failed'
\* having issued no PATCH.
C37_ReadResolveThenWrite ==
    (req.route = UpdateRoute /\ Authenticated(req, sessions))
    => /\ Len(calls) >= 1
       /\ calls[1].method = "GET"
       /\ calls[1].table = req.table
       /\ calls[1].sys_id = req.sys_id
       /\ \A k \in 1..Len(calls) :
            calls[k].method = "GET" => k <= Len(BeforeWrites(calls))
       /\ PreparationFailed
          => /\ Len(Patches(calls)) = 0
             /\ res.status = 500 /\ ~res.ok /\ res.message = "Update failed"

\* C37 (witness): the read went through, the lookup of the assignee threw,
\* and the update stopped with no PATCH
C37_Witness ==
    /\ req.route = UpdateRoute
    /\ "assigned_to" \in DOMAIN req.body
    /\ callOk = <<TRUE, FALSE>>
    /\ calls[2].table = "sys_user"
    /\ Len(Patches(calls)) = 0
    /\ res.message = "Update failed"

\* ---- C38 ----
\* the passwords the logins of the model supply
LoginPasswords == {b.password : b \in LoginInputs} \ {""}

\* the strings a session holds, its credential apart
StringsOf(session) ==
    {session.user[f].v : f \in DOMAIN session.user}
    \cup {session.groups[i] : i \in 1..Len(session.groups)}
    \cup {session.via, session.userSysId}

\* C38: while the flag is on, every session of the store holds the privileged
\* credential as its credential, and no field of it holds a password a login
\* supplied.
C38_NoLoginPasswordStored ==
    AdminForAll
    => \A t \in DOMAIN sessions :
        /\ DOMAIN sessions[t] = {"user", "via", "creds", "userSysId", "groups"}
        /\ sessions[t].creds = adminCreds
        /\ sessions[t].creds.password \notin LoginPasswords
        /\ StringsOf(sessions[t]) \cap LoginPasswords = {}

\* C38 (witness): with the flag on, bob has logged in with his own password
\* and his session, holding the privileged credential, has served a request
C38_Witness ==
    /\ AdminForAll
    /\ req.route = "GET /api/incidents"
    /\ ~Unauthenticated(req, sessions)
    /\ sessions[CarriedToken(req)].user.user_name.v = "bob"
    /\ sessions[CarriedToken(req)].creds = adminCreds
    /\ Len(calls) >= 1
    /\ calls[1].using = adminCreds

\* ---- C39 ----
IsAlias(row) == LowerCase(row.fieldname) = "incident_state"

\* the feed of the record holds a 'state' row of the same instant as the row
HasPrimaryTwin(row, rows) ==
    \E j \in 1..Len(rows) :
        LowerCase(rows[j].fieldname) = "state"
            /\ rows[j].sys_created_on = row.sys_created_on

\* the positions of the narrative that render the alias row
AliasLinesOf(narrative, row) ==
    {i \in 1..Len(narrative) :
        /\ narrative[i].type = "FIELD"
        /\ narrative[i].ts = row.sys_created_on
        /\ narrative[i].by = row.sys_created_by
        /\ narrative[i].text.old = row.oldvalue
        /\ narrative[i].text.new = row.newvalue}

JournalPlace(e, rows) ==
    CHOOSE k \in 1..Len(rows) :
        /\ UpperCase(rows[k].element) = e.type
        /\ rows[k].sys_created_on = e.ts
        /\ rows[k].sys_created_by = e.by
        /\ Trim(rows[k].value) = e.text.body

\* the place in the audit feed of the row a field line renders
AuditPlace(e, rows) ==
    CHOOSE k \in 1..Len(rows) :
        /\ LineField(rows[k]) = e.text.field
        /\ rows[k].sys_created_on = e.ts
        /\ rows[k].sys_created_by = e.by

\* C40: of two narrative entries of the same timestamp a journal line never
\* stands behind a field line, two journal lines stand in the order of their
\* rows in the journal feed, and two field lines in the order of their rows
\* in the audit feed.
C40_StableMerge ==
    (req.route = ActivityRoute /\ res.ok)
    => \A i, j \in 1..Len(res.result) :
        (i < j /\ res.result[i].ts = res.result[j].ts)
        => /\ ~(res.result[i].type = "FIELD" /\ res.result[j].type # "FIELD")
           /\ (res.result[i].type # "FIELD" /\ res.result[j].type # "FIELD")
              => JournalPlace(res.result[i], JournalRowsOf(req.sys_id))
                    < JournalPlace(res.result[j], JournalRowsOf(req.sys_id))
           /\ (res.result[i].type = "FIELD" /\ res.result[j].type = "FIELD")
              => AuditPlace(res.result[i], ShownRowsOf(req.sys_id))
                    < AuditPlace(res.result[j], ShownRowsOf(req.sys_id))

\* C40 (witness): the narrative of i1 has, at the instant <<0, 3>>, the two
\* journal lines in feed order and then the state line, and at <<0, 2>> the
\* two assignment lines in feed order
C40_Witness ==
    /\ req.route = ActivityRoute
    /\ req.sys_id = "i1"
    /\ res.ok
    /\ Len(res.result) = 5
    /\ res.result[1].ts = <<0, 3>> /\ res.result[1].type = "WORK_NOTES"
    /\ res.result[2].ts = <<0, 3>> /\ res.result[2].type = "COMMENTS"
    /\ res.result[3].ts = <<0, 3>> /\ res.result[3].type = "FIELD"
    /\ res.result[4].ts = <<0, 2>> /\ res.result[4].text.field = "assigned_to"
    /\ res.result[5].ts = <<0, 2>> /\ res.result[5].text.field = "assignment_group"

====
